---- MODULE Spec2Model ----
(***************************************************************************)
(* A model of green::signer (src/src/signer.cpp): construction from        *)
(* credentials and a device descriptor, and the BIP-32 xpub cache that     *)
(* get_bip32_xpub, has_bip32_xpub and cache_bip32_xpub share under         *)
(* m_mutex.                                                                *)
(***************************************************************************)
EXTENDS Integers, Sequences, FiniteSets, Bags, TLC

\* ------------------------------------------------------------------ bounds

\* Number of threads calling into one shared signer.
NumThreads == 2
\* Total number of signer calls started in one behaviour.
MaxCalls == 3

\* ------------------------------------------------------- derivation paths

\* The hardened-child bit of a path component. The code's bit is 0x80000000;
\* the model keeps components small and uses bit 7, which no index below reaches.
HardenedBit == 128

harden(n) == n + HardenedBit

is_hardened(c) == c >= HardenedBit

Front(s) == SubSeq(s, 1, Len(s) - 1)

Last(s) == s[Len(s)]

\* The account-level parent m/84'/0'/0' and the paths callers ask for.
AccountPath == <<harden(84), harden(0), harden(0)>>

Paths ==
    { <<>>, <<0>>,
      AccountPath, AccountPath \o <<0>>, AccountPath \o <<0, 5>>, AccountPath \o <<0, 6>> }

\* ------------------------------------------------------------ BIP-32 keys

\* An extended key is identified by the root it descends from ("m" is the
\* wallet's own master, "f" any other root), the path from that root, and
\* whether it still carries the private half.
NoKey == [origin |-> "null", path |-> <<>>, priv |-> FALSE]

MasterKey == [origin |-> "m", path |-> <<>>, priv |-> TRUE]

\* bip32_key_from_parent_path_alloc: a hardened child needs the private half.
CanDerive(hdkey, path) == hdkey.priv \/ \A i \in 1..Len(path) : ~is_hardened(path[i])

derive(hdkey, path, public) ==
    [origin |-> hdkey.origin, path |-> hdkey.path \o path, priv |-> hdkey.priv /\ ~public]

\* bip32_key_serialize(BIP32_FLAG_KEY_PUBLIC) + base58check_from_bytes: the
\* string carries the public half only.
NoXpub == <<"null", <<>>>>

Serialize(hdkey) == <<hdkey.origin, hdkey.path>>

\* bip32_public_key_from_bip32_xpub
bip32_public_key_from_bip32_xpub(xpub) == [origin |-> xpub[1], path |-> xpub[2], priv |-> FALSE]

\* The xpub strings a caller may hand to cache_bip32_xpub for a path: the
\* wallet's own key at that path, or another wallet's.
XpubsFor(p) == { <<"m", p>>, <<"f", p>> }

\* ------------------------------------------------------------------ JSON

\* A JSON object is a function from its keys to their values; scalars are
\* strings ("true", "false", "null", enum names), arrays are tuples.
EmptyJson == <<>>

Null == "null"

Has(json, key) == key \in DOMAIN json

IsEmptyJson(json) == DOMAIN json = {}

\* json[key] = value, replacing or adding the key.
JsonSet(json, key, value) == (key :> value) @@ json

\* json_add_if_missing(json, key, value, overwrite_null): sets the key when
\* it is missing, or null and overwrite_null is set.
json_add_if_missing(json, key, value, overwrite_null) ==
    IF ~Has(json, key) \/ (overwrite_null /\ json[key] = Null)
    THEN JsonSet(json, key, value)
    ELSE json

\* --------------------------------------------------- get_credentials_json

\* What the constructor's helpers throw.
NoError == [kind |-> "none", msg |-> ""]

UserError(msg) == [kind |-> "user_error", msg |-> msg]

AssertionError(msg) == [kind |-> "assertion_error", msg |-> msg]

Returns(json) == [json |-> json, error |-> NoError]

Throws(error) == [json |-> EmptyJson, error |-> error]

\* The mnemonic strings of the model: a word list, a password-encrypted
\* word list, a 128-digit hex seed with 'X' appended, and a string that is
\* neither.
PlainMnemonic == "abandon ability"

EncryptedMnemonic == "ciphertext words"

HexSeedX == "5eedX"

HexSeed == "5eed"

RightPassword == "pw"

\* mnemonic.find(' ') != npos
HasSpace(mnemonic) == mnemonic \in {PlainMnemonic, EncryptedMnemonic}

\* mnemonic.size() == 129 && mnemonic.back() == 'X'
IsHexSeedX(mnemonic) == mnemonic = HexSeedX

\* decrypt_mnemonic: the plaintext, or "" when decryption throws.
decrypt_mnemonic(mnemonic, password) ==
    IF mnemonic = EncryptedMnemonic /\ password = RightPassword THEN PlainMnemonic ELSE ""

\* b2h(bip39_mnemonic_to_seed(mnemonic, passphrase))
bip39_mnemonic_to_seed(mnemonic, passphrase) ==
    IF passphrase = "" THEN "5eed-of-words" ELSE "5eed-of-words-and-passphrase"

\* Lines 27-31: username login.
UsernameCredentials(credentials) ==
    IF ~Has(credentials, "password")
    THEN Throws(AssertionError("key not found: password"))
    ELSE Returns([username |-> credentials["username"], password |-> credentials["password"]])

\* Lines 37-51: a word list, possibly encrypted.
WordListCredentials(credentials) ==
    LET has_passphrase == Has(credentials, "bip39_passphrase")
        has_password == Has(credentials, "password")
        mnemonic == IF has_password
                    THEN decrypt_mnemonic(credentials["mnemonic"], credentials["password"])
                    ELSE credentials["mnemonic"]
        passphrase == IF has_passphrase THEN credentials["bip39_passphrase"] ELSE ""
        ret == [mnemonic |-> mnemonic, seed |-> bip39_mnemonic_to_seed(mnemonic, passphrase)]
    IN  IF has_password /\ has_passphrase
        THEN Throws(AssertionError("cannot use bip39_passphrase and password"))
        ELSE IF mnemonic = ""
        THEN Throws(AssertionError("decrypt_mnemonic"))
        ELSE IF passphrase # ""
        THEN Returns(JsonSet(ret, "bip39_passphrase", passphrase))
        ELSE Returns(ret)

\* Lines 52-57: a hex seed.
HexSeedCredentials(credentials) ==
    IF Has(credentials, "bip39_passphrase")
    THEN Throws(AssertionError("cannot use bip39_passphrase and hex seed"))
    ELSE Returns([seed |-> HexSeed])

\* (mutant) Lines 60-74 without the test that forbids both descriptor keys.
DescriptorCredentialsUnchecked(credentials) ==
    IF Has(credentials, "core_descriptors")
    THEN Returns([core_descriptors |-> credentials["core_descriptors"]])
    ELSE IF Has(credentials, "slip132_extended_pubkeys")
    THEN Returns([slip132_extended_pubkeys |-> credentials["slip132_extended_pubkeys"]])
    ELSE Throws(UserError("Invalid credentials"))

\* Lines 60-74: descriptor watch-only login, or nothing usable.
DescriptorCredentials(credentials) ==
    IF Has(credentials, "core_descriptors")
    THEN IF Has(credentials, "slip132_extended_pubkeys")
         THEN Throws(UserError("cannot use slip132_extended_pubkeys and core_descriptors"))
         ELSE Returns([core_descriptors |-> credentials["core_descriptors"]])
    ELSE IF Has(credentials, "slip132_extended_pubkeys")
    THEN Returns([slip132_extended_pubkeys |-> credentials["slip132_extended_pubkeys"]])
    ELSE Throws(UserError("Invalid credentials"))

\* (mutant) The mnemonic is looked at before the username.
get_credentials_json_mnemonic_first(credentials) ==
    IF IsEmptyJson(credentials)
    THEN Returns(EmptyJson)
    ELSE IF Has(credentials, "mnemonic") /\ HasSpace(credentials["mnemonic"])
    THEN WordListCredentials(credentials)
    ELSE IF Has(credentials, "mnemonic") /\ IsHexSeedX(credentials["mnemonic"])
    THEN HexSeedCredentials(credentials)
    ELSE IF Has(credentials, "username")
    THEN UsernameCredentials(credentials)
    ELSE DescriptorCredentials(credentials)

get_credentials_json(credentials) ==
    IF IsEmptyJson(credentials)
    THEN Returns(EmptyJson)
    ELSE IF Has(credentials, "username")
    THEN UsernameCredentials(credentials)
    ELSE IF Has(credentials, "mnemonic") /\ HasSpace(credentials["mnemonic"])
    THEN WordListCredentials(credentials)
    ELSE IF Has(credentials, "mnemonic") /\ IsHexSeedX(credentials["mnemonic"])
    THEN HexSeedCredentials(credentials)
    ELSE DescriptorCredentials(credentials)

\* -------------------------------------------------------- get_device_json

GREEN_DEVICE_JSON ==
    [device_type |-> "green-backend", supports_low_r |-> "true",
     supports_arbitrary_scripts |-> "true", supports_host_unblinding |-> "false",
     supports_external_blinding |-> "true", supports_liquid |-> "lite",
     supports_ae_protocol |-> "none"]

WATCH_ONLY_DEVICE_JSON ==
    [device_type |-> "watch-only", supports_low_r |-> "true",
     supports_arbitrary_scripts |-> "true", supports_host_unblinding |-> "true",
     supports_external_blinding |-> "true", supports_liquid |-> "lite",
     supports_ae_protocol |-> "none"]

SOFTWARE_DEVICE_JSON ==
    [device_type |-> "software", supports_low_r |-> "true",
     supports_arbitrary_scripts |-> "true", supports_host_unblinding |-> "true",
     supports_external_blinding |-> "true", supports_liquid |-> "lite",
     supports_ae_protocol |-> "none"]

\* Lines 95-96: the caller's device descriptor, or an empty object.
DeviceOf(hw_device) ==
    IF IsEmptyJson(hw_device) \/ ~Has(hw_device, "device") THEN EmptyJson ELSE hw_device["device"]

\* Lines 111-118: defaults for what the descriptor leaves out or sets to null.
AddDefaults(ret) ==
    LET r1 == json_add_if_missing(ret, "supports_low_r", "false", TRUE)
        r2 == json_add_if_missing(r1, "supports_arbitrary_scripts", "false", TRUE)
        r3 == json_add_if_missing(r2, "supports_host_unblinding", "false", TRUE)
        r4 == json_add_if_missing(r3, "supports_external_blinding", "false", TRUE)
        r5 == json_add_if_missing(r4, "supports_liquid", "none", TRUE)
        r6 == json_add_if_missing(r5, "supports_ae_protocol", "none", TRUE)
    IN  json_add_if_missing(r6, "device_type", "hardware", TRUE)

\* (mutant) A green-backend descriptor is kept as the caller gave it.
GreenBackendKept(ret) == ret

\* Lines 124-126: don't allow overriding Green backend settings.
GreenBackend(ret) == GREEN_DEVICE_JSON

\* Lines 119-130: the checks on device_type.
CheckDeviceType(ret) ==
    IF ret["device_type"] = "hardware"
    THEN IF ~Has(ret, "name") \/ ret["name"] = ""
         THEN Throws(UserError("Hardware device JSON requires a non-empty 'name' element"))
         ELSE Returns(ret)
    ELSE IF ret["device_type"] = "green-backend"
    THEN Returns(GreenBackend(ret))
    ELSE IF ret["device_type"] # "software" /\ ret["device_type"] # "watch-only"
    THEN Throws(UserError("Unknown device type"))
    ELSE Returns(ret)

get_device_json(hw_device, credentials) ==
    LET device == DeviceOf(hw_device)
    IN  IF ~IsEmptyJson(device)
        THEN IF ~IsEmptyJson(credentials)
             THEN Throws(UserError("HWW/remote signer and login credentials cannot be used together"))
             ELSE CheckDeviceType(AddDefaults(device))
        ELSE IF \/ Has(credentials, "username")
                \/ Has(credentials, "slip132_extended_pubkeys")
                \/ Has(credentials, "core_descriptors")
        THEN CheckDeviceType(AddDefaults(WATCH_ONLY_DEVICE_JSON))
        ELSE IF Has(credentials, "seed")
        THEN CheckDeviceType(AddDefaults(SOFTWARE_DEVICE_JSON))
        ELSE Throws(UserError("Hardware device or credentials required"))

\* (mutant) The constructor does not look at supports_liquid.
LiquidUnsupportedIgnored(is_liquid, device) == FALSE

\* Line 165: a liquid network on a device without liquid support.
LiquidUnsupported(is_liquid, device) == is_liquid /\ device["supports_liquid"] = "none"

\* asset_blinding_key_from_seed
NoBlindingKey == <<"none">>

asset_blinding_key_from_seed(seed) == <<"slip77", seed>>

\* ------------------------------------------------------------------ state

VARIABLES
    hw_device,              \* constructor argument: the caller's hardware device JSON
    credentials,            \* constructor argument: the caller's credentials JSON
    ctor_pc,                \* position of the constructor: "credentials", "device", "body",
                            \* then "done" (a signer exists) or "failed" (it threw)
    ctor_error,             \* what the constructor threw
    m_is_liquid,            \* net_params.is_liquid()
    m_credentials,          \* the sanitised credentials
    m_device,               \* the device descriptor
    m_master_blinding_key,  \* the master blinding key, or NoBlindingKey
    m_master_key,           \* the master private key, or NoKey
    m_cached_bip32_xpubs,   \* path -> xpub string
    inflight,               \* the get_bip32_xpub calls between their search and their return:
                            \* a bag of the calling threads' positions and locals
    last,                   \* the call that completed last (the n-th to complete), with its outcome
    calls,                  \* number of calls started
    returned,               \* path -> xpub strings get_bip32_xpub has returned for it
    foreign,                \* cache_bip32_xpub has inserted an entry
    raced,                  \* ... while a get_bip32_xpub call was in flight
    peer,                   \* another signer, the argument of is_compatible_with
    psbt,                   \* a Psbt object: m_is_liquid, m_original_version, m_psbt
    rhs,                    \* another Psbt object, the argument of Psbt::swap
    presult,                \* what the last call on the Psbt returned or threw
    m_mutex,                \* the threads that hold the signer's mutex: one, or none
    threads                 \* each thread's position inside a signer method, and its locals

\* What the constructor writes (set_master_blinding_key writes the last).
cvars == <<hw_device, credentials, ctor_pc, ctor_error, m_is_liquid, m_credentials, m_device,
           m_master_blinding_key>>

\* What the calls on a constructed signer write.
svars == <<m_cached_bip32_xpubs, inflight, last, calls, returned, foreign, raced>>

\* The Psbt objects.
pvars == <<psbt, rhs, presult>>

\* The signer's mutex and the threads that take it.
lvars == <<m_mutex, threads>>

\* What the calls on one signer leave alone.
ovars == <<peer, pvars, lvars>>

vars == <<cvars, m_master_key, svars, ovars>>

\* No other signer is at hand.
NoPeer == [m_is_liquid |-> FALSE, m_credentials |-> EmptyJson, m_device |-> EmptyJson,
           m_master_blinding_key |-> NoBlindingKey]

\* No Psbt has been made.
NoTx == [present |-> FALSE, version |-> 0, locktime |-> 0, inputs |-> <<>>, outputs |-> <<>>]

NoWallyPsbt ==
    [magic |-> "null", version |-> 0, tx |-> NoTx, tx_version |-> 0, fallback_locktime |-> 0,
     inputs |-> <<>>, outputs |-> <<>>]

NoPsbt == [m_is_liquid |-> FALSE, m_original_version |-> 0, m_psbt |-> NoWallyPsbt]

NoResult == [op |-> "none", args |-> <<>>, error |-> NoError, value |-> <<>>, calls |-> <<>>]

InitNoPsbt == psbt = NoPsbt /\ rhs = NoPsbt /\ presult = NoResult

InitOther == peer = NoPeer /\ InitNoPsbt

\* The locals of a call: only get_bip32_xpub uses more than path.
Locals(path) == [pc |-> "idle", path |-> path, parent_path |-> <<>>, child_path |-> <<>>,
                 parent_key |-> NoKey, from_master |-> FALSE, hit |-> FALSE]

NoCall == [n |-> 0, op |-> "none", path |-> <<>>, out |-> "none", xpub |-> NoXpub,
           flag |-> FALSE, from_master |-> FALSE, hit |-> FALSE,
           parent_path |-> <<>>, child_path |-> <<>>]

NoThread == {}

\* A thread outside the signer's methods.
Idle == [pc |-> "idle", op |-> "none", path |-> <<>>, parent_path |-> <<>>, child_path |-> <<>>,
         parent_key |-> NoKey, cache_path |-> <<>>, xpub |-> NoXpub, next |-> "idle",
         blinding_key_hex |-> "", out |-> "none"]

\* No call has been made on the signer.
InitCalls ==
    /\ m_mutex = NoThread
    /\ threads = [t \in 1..NumThreads |-> Idle]
    /\ m_cached_bip32_xpubs = <<>>
    /\ inflight = EmptyBag
    /\ last = NoCall
    /\ calls = 0
    /\ returned = [p \in Paths |-> {}]
    /\ foreign = FALSE
    /\ raced = FALSE

\* --------------------------------------------------------- signer::signer

\* Lines 169-173: the master key, when the credentials hold a seed.
MasterKeyOf(creds) == IF Has(creds, "seed") THEN MasterKey ELSE NoKey

\* Lines 174-176: the master blinding key, when liquid and there is a seed.
MasterBlindingKeyOf(is_liquid, creds) ==
    IF Has(creds, "seed") /\ is_liquid
    THEN asset_blinding_key_from_seed(creds["seed"])
    ELSE NoBlindingKey

\* Line 162: m_credentials(get_credentials_json(credentials))
CtorCredentials ==
    /\ ctor_pc = "credentials"
    /\ LET r == get_credentials_json(credentials)
       IN  /\ m_credentials' = r.json
           /\ ctor_error' = r.error
           /\ ctor_pc' = IF r.error = NoError THEN "device" ELSE "failed"
    /\ UNCHANGED <<hw_device, credentials, m_is_liquid, m_device, m_master_blinding_key,
                   m_master_key, svars, ovars>>

\* Line 163: m_device(get_device_json(hw_device, m_credentials))
CtorDevice ==
    /\ ctor_pc = "device"
    /\ LET r == get_device_json(hw_device, m_credentials)
       IN  /\ m_device' = r.json
           /\ ctor_error' = r.error
           /\ ctor_pc' = IF r.error = NoError THEN "body" ELSE "failed"
    /\ UNCHANGED <<hw_device, credentials, m_is_liquid, m_credentials, m_master_blinding_key,
                   m_master_key, svars, ovars>>

\* Lines 164-179: the constructor's body.
CtorBody ==
    /\ ctor_pc = "body"
    /\ IF LiquidUnsupported(m_is_liquid, m_device)
       THEN /\ ctor_error' = UserError("id_the_hardware_wallet_you_are")
            /\ ctor_pc' = "failed"
            /\ UNCHANGED <<m_master_key, m_master_blinding_key>>
       ELSE /\ m_master_key' = MasterKeyOf(m_credentials)
            /\ m_master_blinding_key' = MasterBlindingKeyOf(m_is_liquid, m_credentials)
            /\ ctor_pc' = "done"
            /\ UNCHANGED ctor_error
    /\ UNCHANGED <<hw_device, credentials, m_is_liquid, m_credentials, m_device, svars, ovars>>

\* The credentials objects callers pass: any subset of the keys the
\* constructor reads, and one it does not.
Mnemonics == {PlainMnemonic, EncryptedMnemonic, HexSeedX, "junk"}

Absent == "(absent)"

\* The JSON object that has the keys of r that are not marked absent.
Object(r) == [k \in { j \in DOMAIN r : r[j] # Absent } |-> r[k]]

CredentialsInputs ==
    { Object(r) : r \in
        [username : {Absent, "user"}, password : {Absent, RightPassword},
         mnemonic : {Absent} \cup Mnemonics, bip39_passphrase : {Absent, "passphrase"},
         core_descriptors : {Absent, "[wpkh(xpub)]"},
         slip132_extended_pubkeys : {Absent, "[zpub]"}, comment : {Absent, "x"}] }

\* The device descriptors callers pass.
DeviceInputs ==
    { Object(r) : r \in
        [device_type : {Absent, "hardware", "green-backend", "software", "watch-only", "toaster"},
         name : {Absent, "Jade"},
         supports_liquid : {Absent, Null, "none", "lite"},
         supports_low_r : {Absent, "false"},
         supports_host_unblinding : {Absent, "true"}] }

HwDeviceInputs == {EmptyJson, [hint |-> "x"]} \cup { [device |-> d] : d \in DeviceInputs }

InitCtor ==
    /\ hw_device \in HwDeviceInputs
    /\ credentials \in CredentialsInputs
    /\ m_is_liquid \in BOOLEAN
    /\ ctor_pc = "credentials"
    /\ ctor_error = NoError
    /\ m_credentials = EmptyJson
    /\ m_device = EmptyJson
    /\ m_master_blinding_key = NoBlindingKey
    /\ m_master_key = NoKey
    /\ InitCalls
    /\ InitOther

NextCtor == CtorCredentials \/ CtorDevice \/ CtorBody

SpecCtor == InitCtor /\ [][NextCtor]_vars

\* The signers the calls below are made on: a software signer made from a
\* hex seed, and a hardware signer.
SignerInputs ==
    { [hw_device |-> EmptyJson, credentials |-> [mnemonic |-> HexSeedX]],
      [hw_device |-> [device |-> [name |-> "Jade"]], credentials |-> EmptyJson] }

\* The state the constructor leaves for these inputs.
Init ==
    /\ \E in \in SignerInputs :
          /\ hw_device = in.hw_device
          /\ credentials = in.credentials
          /\ m_credentials = get_credentials_json(in.credentials).json
    /\ m_device = get_device_json(hw_device, m_credentials).json
    /\ m_is_liquid = FALSE
    /\ ctor_pc = "done"
    /\ ctor_error = NoError
    /\ m_master_key = MasterKeyOf(m_credentials)
    /\ m_master_blinding_key = MasterBlindingKeyOf(m_is_liquid, m_credentials)
    /\ InitCalls
    /\ InitOther

\* ------------------------------------------------------------- the cache

\* (mutant) std::map::insert_or_assign in place of emplace.
MapInsertOrAssign(cache, path, xpub) == (path :> xpub) @@ cache

\* std::map::emplace: inserts only when the key is absent.
MapEmplace(cache, path, xpub) ==
    IF path \in DOMAIN cache THEN cache ELSE (path :> xpub) @@ cache

\* cache_bip32_xpub: emplace, then assert that the entry was inserted or
\* already held the same string. inserted is the value returned; ok is the
\* assertion.
cache_bip32_xpub(cache, path, xpub) ==
    LET ret == MapEmplace(cache, path, xpub)
        inserted == path \notin DOMAIN cache
    IN  [cache |-> ret, inserted |-> inserted, ok |-> inserted \/ ret[path] = xpub]

\* (mutant) The loop without the is_hardened test: it climbs to the root.
RECURSIVE search_past_hardened(_, _, _)
search_past_hardened(cache, parent_path, child_path) ==
    IF parent_path \in DOMAIN cache
    THEN [hit |-> TRUE, parent_path |-> parent_path, child_path |-> child_path]
    ELSE IF parent_path = <<>>
    THEN [hit |-> FALSE, parent_path |-> parent_path, child_path |-> child_path]
    ELSE search_past_hardened(cache, Front(parent_path), <<Last(parent_path)>> \o child_path)

\* The loop of get_bip32_xpub and has_bip32_xpub: look parent_path up, then
\* move its last component to the front of child_path, until a hit, the
\* empty path or a hardened last component.
RECURSIVE search(_, _, _)
search(cache, parent_path, child_path) ==
    IF parent_path \in DOMAIN cache
    THEN [hit |-> TRUE, parent_path |-> parent_path, child_path |-> child_path]
    ELSE IF parent_path = <<>> \/ is_hardened(Last(parent_path))
    THEN [hit |-> FALSE, parent_path |-> parent_path, child_path |-> child_path]
    ELSE search(cache, Front(parent_path), <<Last(parent_path)>> \o child_path)

\* ------------------------------------------------ starting and completing

\* A thread that is not inside a call starts one.
CanStart == BagCardinality(inflight) < NumThreads /\ calls < MaxCalls

InFlight == inflight # EmptyBag

\* The call with locals rec returns or throws.
Complete(rec, op, out, xpub, flag) ==
    /\ last' = [n |-> last.n + 1, op |-> op, path |-> rec.path, out |-> out, xpub |-> xpub, flag |-> flag,
                from_master |-> rec.from_master, hit |-> rec.hit,
                parent_path |-> rec.parent_path, child_path |-> rec.child_path]
    /\ returned' = IF op = "get" /\ out = "ok"
                   THEN [returned EXCEPT ![rec.path] = @ \cup {xpub}]
                   ELSE returned

Without(rec) == inflight (-) SetToBag({rec})

\* ------------------------------------------------------- get_bip32_xpub

\* Lines 270-292: the search under m_mutex.
GetSearch(path) ==
    /\ CanStart
    /\ calls' = calls + 1
    /\ LET s == search(m_cached_bip32_xpubs, path, <<>>)
           rec == [pc |-> "derive", path |-> path, parent_path |-> s.parent_path,
                   child_path |-> s.child_path,
                   parent_key |-> IF s.hit /\ s.child_path # <<>>
                                  THEN bip32_public_key_from_bip32_xpub(
                                           m_cached_bip32_xpubs[s.parent_path])
                                  ELSE NoKey,
                   from_master |-> FALSE, hit |-> s.hit]
       IN  IF s.hit /\ s.child_path = <<>>
           THEN /\ Complete(rec, "get", "ok", m_cached_bip32_xpubs[path], FALSE)
                /\ UNCHANGED inflight
           ELSE /\ inflight' = inflight (+) SetToBag({rec})
                /\ UNCHANGED <<last, returned>>
    /\ UNCHANGED <<cvars, ovars, m_master_key, m_cached_bip32_xpubs, foreign, raced>>

\* cache_ext_key(path, hdkey) as called by the call with locals old, which
\* become rec; the call then moves to position next, or returns the xpub
\* when next is "idle".
CacheExtKey(old, rec, path, hdkey, next) ==
    IF hdkey = NoKey
    THEN /\ Complete(rec, "get", "no_master_key", NoXpub, FALSE)
         /\ inflight' = Without(old)
         /\ UNCHANGED m_cached_bip32_xpubs
    ELSE LET xpub == Serialize(hdkey)
             r == cache_bip32_xpub(m_cached_bip32_xpubs, path, xpub)
         IN  /\ m_cached_bip32_xpubs' = r.cache
             /\ IF ~r.ok
                THEN /\ Complete(rec, "get", "conflict", NoXpub, FALSE)
                     /\ inflight' = Without(old)
                ELSE IF next = "idle"
                THEN /\ Complete(rec, "get", "ok", xpub, FALSE)
                     /\ inflight' = Without(old)
                ELSE /\ inflight' = Without(old) (+) SetToBag({[rec EXCEPT !.pc = next]})
                     /\ UNCHANGED <<last, returned>>

\* Lines 293-296: the master xpub was requested and is not cached.
GetMaster(c) ==
    /\ c.pc = "derive"
    /\ c.path = <<>>
    /\ CacheExtKey(c, [c EXCEPT !.from_master = (m_master_key # NoKey)],
                   <<>>, m_master_key, "idle")
    /\ UNCHANGED <<cvars, ovars, m_master_key, calls, foreign, raced>>

\* (mutant) The parent is never derived.
NeedsParentNever(c) == FALSE

\* Line 297: the search stopped at a hardened parent that is not cached.
NeedsParent(c) == c.parent_path # <<>> /\ c.parent_key = NoKey

\* (mutant) The child is always derived from the master key.
RootKeyAlwaysMaster(parent_key, master_key) == master_key

\* Line 303: the key the child is derived from.
RootKey(parent_key, master_key) == IF parent_key # NoKey THEN parent_key ELSE master_key

\* (mutant) The child is cached under the path its parent was found at.
ChildCachePathOfParent(c) == c.parent_path

\* Line 312: the path the derived child is cached under.
ChildCachePath(c) == c.path

\* Lines 297-302: derive the parent from the master key and cache it.
GetParent(c) ==
    /\ c.pc = "derive"
    /\ c.path # <<>>
    /\ NeedsParent(c)
    /\ IF m_master_key = NoKey
       THEN CacheExtKey(c, c, c.parent_path, NoKey, "idle")
       ELSE LET parent_key == derive(m_master_key, c.parent_path, TRUE)
            IN  CacheExtKey(c, [c EXCEPT !.parent_key = parent_key, !.from_master = TRUE],
                            c.parent_path, parent_key, "child")
    /\ UNCHANGED <<cvars, ovars, m_master_key, calls, foreign, raced>>

\* Lines 303-312: derive the child from the parent (or the master key).
GetChild(c) ==
    /\ \/ c.pc = "child"
       \/ c.pc = "derive" /\ c.path # <<>> /\ ~NeedsParent(c)
    /\ LET root_key == RootKey(c.parent_key, m_master_key)
           rec == [c EXCEPT !.from_master = @ \/ (root_key # NoKey /\ root_key = m_master_key)]
       IN  IF root_key = NoKey
           THEN CacheExtKey(c, c, c.path, NoKey, "idle")
           ELSE IF c.child_path = <<>>
           THEN /\ Complete(rec, "get", "ok", Serialize(root_key), FALSE)
                /\ inflight' = Without(c)
                /\ UNCHANGED m_cached_bip32_xpubs
           ELSE IF ~CanDerive(root_key, c.child_path)
           THEN /\ Complete(rec, "get", "derive_error", NoXpub, FALSE)
                /\ inflight' = Without(c)
                /\ UNCHANGED m_cached_bip32_xpubs
           ELSE CacheExtKey(c, rec, ChildCachePath(c), derive(root_key, c.child_path, TRUE), "idle")
    /\ UNCHANGED <<cvars, ovars, m_master_key, calls, foreign, raced>>

\* ------------------------------------------------------- has_bip32_xpub

\* (mutant) Only the path itself is looked up.
has_bip32_xpub_exact(master_key, cache, path) ==
    IF master_key # NoKey THEN TRUE ELSE path \in DOMAIN cache

has_bip32_xpub(master_key, cache, path) ==
    IF master_key # NoKey THEN TRUE ELSE search(cache, path, <<>>).hit

HasXpub(path) ==
    /\ CanStart
    /\ calls' = calls + 1
    /\ Complete(Locals(path), "has", "ok", NoXpub,
                has_bip32_xpub(m_master_key, m_cached_bip32_xpubs, path))
    /\ UNCHANGED <<cvars, ovars, m_master_key, m_cached_bip32_xpubs, inflight, foreign, raced>>

\* ----------------------------------------------------- cache_bip32_xpub

CacheXpub(path, xpub) ==
    /\ CanStart
    /\ calls' = calls + 1
    /\ LET r == cache_bip32_xpub(m_cached_bip32_xpubs, path, xpub)
       IN  /\ m_cached_bip32_xpubs' = r.cache
           /\ Complete(Locals(path), "cache", IF r.ok THEN "ok" ELSE "conflict", xpub, r.inserted)
           /\ foreign' = (foreign \/ m_cached_bip32_xpubs' # m_cached_bip32_xpubs)
           /\ raced' = (raced \/ (m_cached_bip32_xpubs' # m_cached_bip32_xpubs /\ InFlight))
    /\ UNCHANGED <<cvars, ovars, m_master_key, inflight>>

\* ------------------------------------------------------------------ spec

Next ==
    \/ \E path \in Paths : GetSearch(path)
    \/ \E c \in BagToSet(inflight) : GetMaster(c)
    \/ \E c \in BagToSet(inflight) : GetParent(c)
    \/ \E c \in BagToSet(inflight) : GetChild(c)
    \/ \E path \in Paths : HasXpub(path)
    \/ \E path \in Paths : \E xpub \in XpubsFor(path) : CacheXpub(path, xpub)

Spec == Init /\ [][Next]_vars

\* ------------------------------------------------ the master blinding key

\* Byte strings are sequences of 32-byte blocks: SHA512_LEN is two blocks,
\* HMAC_SHA256_LEN one.
SHA512_LEN == 2

HMAC_SHA256_LEN == 1

\* The hex strings callers pass to set_master_blinding_key: none, a half-size
\* key, a full-size key, and one of a size that is neither.
BlindingKeyHexes == {"", "k32", "k64", "k96"}

h2b(hex) ==
    CASE hex = "" -> <<>>
      [] hex = "k32" -> <<"k32/lo">>
      [] hex = "k64" -> <<"k64/hi", "k64/lo">>
      [] OTHER -> <<"k96/0", "k96/1", "k96/2">>

\* Line 252: b2h of the last n blocks (n is one wherever it is used).
b2h_last(key, n) == key[Len(key)]

\* Lines 404-413: the key the signer holds after the call, and whether the
\* size assertion held.
set_master_blinding_key(key, blinding_key_hex) ==
    IF blinding_key_hex = ""
    THEN [key |-> key, ok |-> TRUE]
    ELSE LET key_bytes == h2b(blinding_key_hex)
             key_size == Len(key_bytes)
         IN  IF ~(key_size = SHA512_LEN \/ key_size = SHA512_LEN \div 2)
             THEN [key |-> key, ok |-> FALSE]
             ELSE [key |-> [i \in 1..(SHA512_LEN - key_size) |-> "00"] \o key_bytes, ok |-> TRUE]

\* What is_compatible_with reads of a signer.
Me == [m_is_liquid |-> m_is_liquid, m_credentials |-> m_credentials, m_device |-> m_device,
       m_master_blinding_key |-> m_master_blinding_key]

\* Lines 244-256.
get_credentials(s) ==
    IF s.m_is_liquid /\ s.m_master_blinding_key # NoBlindingKey
    THEN JsonSet(s.m_credentials, "master_blinding_key",
                 b2h_last(s.m_master_blinding_key, HMAC_SHA256_LEN))
    ELSE s.m_credentials

\* nlohmann::json::erase(key)
JsonErase(json, key) == [k \in DOMAIN json \ {key} |-> json[k]]

\* (mutant) The credentials are compared as get_credentials returns them.
is_compatible_with_no_erase(me, other) ==
    IF me.m_device # other.m_device
    THEN FALSE
    ELSE get_credentials(me) = get_credentials(other)

\* Lines 188-198.
is_compatible_with(me, other) ==
    IF me.m_device # other.m_device
    THEN FALSE
    ELSE LET my_credentials == JsonErase(get_credentials(me), "master_blinding_key")
             other_credentials == JsonErase(get_credentials(other), "master_blinding_key")
         IN  my_credentials = other_credentials

\* ------------------------------------------------ sign_hash, sign_rec_hash

\* ec_sig_from_bytes / ec_sig_rec_from_bytes over the derived private key.
NoSig == <<"null", <<>>>>

ec_sig(kind, derived) == <<kind, derived.path>>

\* (mutant) The test is the one has_bip32_xpub makes.
HoldsSigningKeyOrXpub(master_key, cache, path) == has_bip32_xpub(master_key, cache, path)

\* Lines 377, 384: GDK_RUNTIME_ASSERT(m_master_key)
HoldsSigningKey(master_key, cache, path) == master_key # NoKey

\* Lines 375-387: both methods assert, derive privately and sign.
sign(kind, master_key, cache, path) ==
    IF ~HoldsSigningKey(master_key, cache, path)
    THEN [ok |-> FALSE, sig |-> NoSig]
    ELSE [ok |-> TRUE, sig |-> ec_sig(kind, derive(master_key, path, FALSE))]

\* ------------------------------------------- calls on two constructed signers

\* Lines 157-179 as a function of the constructor's arguments.
signer(is_liquid, hw, creds) ==
    LET c == get_credentials_json(creds)
        d == get_device_json(hw, c.json)
    IN  IF c.error # NoError THEN [error |-> c.error]
        ELSE IF d.error # NoError THEN [error |-> d.error]
        ELSE IF LiquidUnsupported(is_liquid, d.json)
        THEN [error |-> UserError("id_the_hardware_wallet_you_are")]
        ELSE [error |-> NoError, m_is_liquid |-> is_liquid, m_credentials |-> c.json,
              m_device |-> d.json, m_master_key |-> MasterKeyOf(c.json),
              m_master_blinding_key |-> MasterBlindingKeyOf(is_liquid, c.json)]

\* The arguments signers are made from: software signers from a hex seed and
\* from a mnemonic, a watch-only signer, two hardware devices that differ in
\* one capability, and the Green backend.
PairInputs ==
    { [hw_device |-> EmptyJson, credentials |-> [mnemonic |-> HexSeedX]],
      [hw_device |-> EmptyJson, credentials |-> [mnemonic |-> PlainMnemonic]],
      [hw_device |-> EmptyJson, credentials |-> [username |-> "user", password |-> RightPassword]],
      [hw_device |-> [device |-> [name |-> "Jade", supports_liquid |-> "lite"]],
       credentials |-> EmptyJson],
      [hw_device |-> [device |-> [name |-> "Jade", supports_liquid |-> "lite",
                                  supports_low_r |-> "true"]],
       credentials |-> EmptyJson],
      [hw_device |-> [device |-> [device_type |-> "green-backend"]], credentials |-> EmptyJson] }

InitPair ==
    /\ \E in \in PairInputs, liquid \in BOOLEAN :
          LET me == signer(liquid, in.hw_device, in.credentials)
          IN  /\ me.error = NoError
              /\ hw_device = in.hw_device
              /\ credentials = in.credentials
              /\ m_is_liquid = me.m_is_liquid
              /\ m_credentials = me.m_credentials
              /\ m_device = me.m_device
              /\ m_master_key = me.m_master_key
              /\ m_master_blinding_key = me.m_master_blinding_key
    /\ ctor_pc = "done"
    /\ ctor_error = NoError
    /\ \E in \in PairInputs, liquid \in BOOLEAN :
          LET other == signer(liquid, in.hw_device, in.credentials)
          IN  /\ other.error = NoError
              /\ peer = [m_is_liquid |-> other.m_is_liquid, m_credentials |-> other.m_credentials,
                         m_device |-> other.m_device,
                         m_master_blinding_key |-> other.m_master_blinding_key]
    /\ InitCalls
    /\ InitNoPsbt

SetMasterBlindingKey(blinding_key_hex) ==
    /\ CanStart
    /\ calls' = calls + 1
    /\ LET r == set_master_blinding_key(m_master_blinding_key, blinding_key_hex)
       IN  /\ m_master_blinding_key' = r.key
           /\ Complete(Locals(<<>>), "set_master_blinding_key",
                       IF r.ok THEN "ok" ELSE "assertion", NoXpub, FALSE)
    /\ UNCHANGED <<hw_device, credentials, ctor_pc, ctor_error, m_is_liquid, m_credentials,
                   m_device, m_master_key, m_cached_bip32_xpubs, inflight, foreign, raced, ovars>>

PeerSetMasterBlindingKey(blinding_key_hex) ==
    /\ CanStart
    /\ calls' = calls + 1
    /\ LET r == set_master_blinding_key(peer.m_master_blinding_key, blinding_key_hex)
       IN  /\ peer' = [peer EXCEPT !.m_master_blinding_key = r.key]
           /\ Complete(Locals(<<>>), "peer.set_master_blinding_key",
                       IF r.ok THEN "ok" ELSE "assertion", NoXpub, FALSE)
    /\ UNCHANGED <<cvars, pvars, lvars, m_master_key, m_cached_bip32_xpubs, inflight, foreign, raced>>

IsCompatibleWith ==
    /\ CanStart
    /\ calls' = calls + 1
    /\ Complete(Locals(<<>>), "is_compatible_with", "ok", NoXpub, is_compatible_with(Me, peer))
    /\ UNCHANGED <<cvars, ovars, m_master_key, m_cached_bip32_xpubs, inflight, foreign, raced>>

PeerIsCompatibleWith ==
    /\ CanStart
    /\ calls' = calls + 1
    /\ Complete(Locals(<<>>), "peer.is_compatible_with", "ok", NoXpub, is_compatible_with(peer, Me))
    /\ UNCHANGED <<cvars, ovars, m_master_key, m_cached_bip32_xpubs, inflight, foreign, raced>>

Sign(kind, path) ==
    /\ CanStart
    /\ calls' = calls + 1
    /\ LET r == sign(kind, m_master_key, m_cached_bip32_xpubs, path)
       IN  Complete(Locals(path), kind, IF r.ok THEN "ok" ELSE "assertion", r.sig, FALSE)
    /\ UNCHANGED <<cvars, ovars, m_master_key, m_cached_bip32_xpubs, inflight, foreign, raced>>

SignHash(path) == Sign("sign_hash", path)

SignRecHash(path) == Sign("sign_rec_hash", path)

\* The paths signed at and cached in these runs.
PairPaths == {<<>>, AccountPath \o <<0, 5>>}

NextPair ==
    \/ \E hex \in BlindingKeyHexes : SetMasterBlindingKey(hex)
    \/ \E hex \in BlindingKeyHexes : PeerSetMasterBlindingKey(hex)
    \/ IsCompatibleWith
    \/ PeerIsCompatibleWith
    \/ \E path \in PairPaths : SignHash(path)
    \/ \E path \in PairPaths : SignRecHash(path)
    \/ \E path \in PairPaths : CacheXpub(path, <<"m", path>>)

SpecPair == InitPair /\ [][NextPair]_vars

\* =================================================================== claims

\* A call completes in this step.
Completes(op) == last'.n = last.n + 1 /\ last'.op = op

\* The prefixes of path the search looks up: path itself and what is left
\* after dropping trailing components, none of the dropped ones hardened.
SearchedPrefixes(path) ==
    { SubSeq(path, 1, k) : k \in { j \in 0..Len(path) :
                                     \A i \in (j + 1)..Len(path) : ~is_hardened(path[i]) } }

CachedPrefixes(cache, path) == SearchedPrefixes(path) \cap DOMAIN cache

\* The longest of a non-empty set of prefixes of one path.
Longest(S) == CHOOSE q \in S : \A r \in S : Len(r) <= Len(q)

Requested == { p \in Paths : returned[p] # {} }

LeafPath5 == AccountPath \o <<0, 5>>

LeafPath6 == AccountPath \o <<0, 6>>

\* C1: every successful get_bip32_xpub(p) returns the same xpub string, over
\* any sequence and interleaving of calls; and a get_bip32_xpub call trips
\* the cache-conflict assertion only if a cache_bip32_xpub call inserted an
\* entry while a get_bip32_xpub call was in flight: callers of
\* get_bip32_xpub alone never trip it.
C1_SameXpubNoConflict ==
    /\ \A p \in Paths : Cardinality(returned[p]) <= 1
    /\ (last.op = "get" /\ last.out = "conflict") => raced

\* C1 witness: two get_bip32_xpub calls for paths sharing the parent
\* m/84'/0'/0' overlapped (neither found the parent cached); one has
\* returned, the other has cached the parent and is still in flight.
C1_Witness ==
    /\ ~foreign
    /\ last.op = "get" /\ last.out = "ok" /\ last.path = LeafPath5 /\ ~last.hit
    /\ \E c \in BagToSet(inflight) : c.path = LeafPath6 /\ ~c.hit /\ c.pc = "child"

\* C2: cache_bip32_xpub(path, xpub) inserts when path is absent, changes
\* nothing when path holds the same xpub, and fails without replacing the
\* stored value when path holds a different xpub; no step of any call alters
\* or removes a cached entry.
C2_CacheInsertOnly ==
    [][ /\ \A p \in DOMAIN m_cached_bip32_xpubs :
              /\ p \in DOMAIN m_cached_bip32_xpubs'
              /\ m_cached_bip32_xpubs'[p] = m_cached_bip32_xpubs[p]
        /\ Completes("cache") =>
              LET p == last'.path
                  x == last'.xpub
              IN  IF p \notin DOMAIN m_cached_bip32_xpubs
                  THEN /\ last'.out = "ok"
                       /\ DOMAIN m_cached_bip32_xpubs' = DOMAIN m_cached_bip32_xpubs \cup {p}
                       /\ m_cached_bip32_xpubs'[p] = x
                  ELSE /\ m_cached_bip32_xpubs' = m_cached_bip32_xpubs
                       /\ last'.out = IF m_cached_bip32_xpubs[p] = x THEN "ok" ELSE "conflict"
      ]_vars

\* C2 witness: a cache_bip32_xpub call has failed on a path that holds a
\* different xpub, which is still the one stored.
C2_Witness ==
    /\ last.op = "cache" /\ last.out = "conflict"
    /\ last.path \in DOMAIN m_cached_bip32_xpubs
    /\ m_cached_bip32_xpubs[last.path] # last.xpub


\* A get_bip32_xpub call has done its search in this step: c holds its locals.
Searched(c) ==
    /\ calls' = calls + 1
    /\ \/ Completes("get") /\ inflight' = inflight /\ c = last'
       \/ last' = last /\ inflight' = inflight (+) SetToBag({c})

SearchResults == BagToSet(inflight') \cup {last'}

\* C3: get_bip32_xpub(path) looks up path and then the prefixes left by
\* dropping trailing components, stopping at the empty path or at the first
\* hardened trailing component, and takes the first (longest) one cached.
\* When none of them is cached and the signer has no master_key, the call
\* fails and leaves the cache unchanged, whatever else is cached.
C3_SearchThenRequireMaster ==
    [][ /\ \A c \in SearchResults :
              Searched(c) =>
                  LET hits == CachedPrefixes(m_cached_bip32_xpubs, c.path)
                  IN  /\ c.hit = (hits # {})
                      /\ c.hit => c.parent_path = Longest(hits)
                      /\ c.parent_path \o c.child_path = c.path
        /\ \A c \in BagToSet(inflight) :
              (~c.hit /\ m_master_key = NoKey /\ inflight' = Without(c)) =>
                  /\ Completes("get")
                  /\ last'.path = c.path
                  /\ last'.out = "no_master_key"
                  /\ m_cached_bip32_xpubs' = m_cached_bip32_xpubs
        /\ \A c \in BagToSet(inflight) :
              (~c.hit /\ m_master_key = NoKey) => c.pc = "derive"
      ]_vars

\* C3 witness: on a signer without master_key whose cache holds the master
\* xpub, get_bip32_xpub(m/84'/0'/0'/0/5) has failed for want of master_key.
C3_Witness ==
    /\ m_master_key = NoKey
    /\ <<>> \in DOMAIN m_cached_bip32_xpubs
    /\ last.op = "get" /\ last.path = LeafPath5 /\ last.out = "no_master_key"
    /\ ~last.hit

\* C4: has_bip32_xpub(path) returns true exactly when master_key is present
\* or the cache holds path or a prefix of it reached by dropping trailing
\* non-hardened components; it never modifies the cache.
C4_HasXpub ==
    [][ Completes("has") =>
            /\ last'.flag = (\/ m_master_key # NoKey
                             \/ CachedPrefixes(m_cached_bip32_xpubs, last'.path) # {})
            /\ m_cached_bip32_xpubs' = m_cached_bip32_xpubs
      ]_vars

\* C4 witness: without master_key, has_bip32_xpub has returned true for a
\* path that is not cached itself (a prefix of it is).
C4_Witness ==
    /\ m_master_key = NoKey
    /\ last.op = "has" /\ last.flag
    /\ last.path \notin DOMAIN m_cached_bip32_xpubs

\* The state of scenario S5: a signer with a master key on which exactly
\* two calls were made, get_bip32_xpub(m/84'/0'/0'/0/5) and
\* get_bip32_xpub(m/84'/0'/0'/0/6), and both have returned.
S5_Done ==
    /\ m_master_key # NoKey
    /\ calls = 2
    /\ inflight = EmptyBag
    /\ Requested = {LeafPath5, LeafPath6}

\* C5 (as stated): after S5 the cache holds exactly the master path, the
\* parent m/84'/0'/0' and the two leaves.
C5_Original ==
    S5_Done => DOMAIN m_cached_bip32_xpubs = {<<>>, AccountPath, LeafPath5, LeafPath6}

\* C5 (amended): after S5 the cache holds exactly the parent m/84'/0'/0' and
\* the two leaves; the master path is not cached.
C5_PrefixPromotion ==
    S5_Done => DOMAIN m_cached_bip32_xpubs = {AccountPath, LeafPath5, LeafPath6}

\* C5 witness: scenario S5 has run.
C5_Witness == S5_Done

\* C6: a get_bip32_xpub call whose search finds a cached parent (such as
\* m/84'/0'/0', cached by an earlier call) derives nothing from master_key:
\* it returns the child derived publicly from the cached parent xpub, with
\* or without a master_key, and can only fail if cache_bip32_xpub inserted a
\* different xpub for the path while the call was in flight.
C6_DerivedFromCachedParent ==
    /\ \A c \in BagToSet(inflight) : c.hit => ~c.from_master
    /\ (last.op = "get" /\ last.hit) =>
           /\ ~last.from_master
           /\ \/ /\ last.out = "ok"
                 /\ last.xpub = Serialize(derive(
                        bip32_public_key_from_bip32_xpub(m_cached_bip32_xpubs[last.parent_path]),
                        last.child_path, TRUE))
              \/ last.out = "conflict" /\ raced

\* C6 witness: after a first get_bip32_xpub cached m/84'/0'/0', a second
\* one found it and returned a leaf below it.
C6_Witness ==
    /\ ~foreign
    /\ last.op = "get" /\ last.out = "ok" /\ last.hit
    /\ last.parent_path = AccountPath /\ last.child_path = <<0, 6>>

\* ------------------------------------------------- claims on construction

\* The constructor has returned or thrown.
CtorEnded == ctor_pc \in {"done", "failed"}

\* A signer object exists.
Constructed == ctor_pc = "done"

\* C7: construction fails with a user error whenever the network is liquid
\* and the device descriptor get_device_json produced has supports_liquid
\* none, also when the caller's descriptor left supports_liquid out.
C7_LiquidNeedsSupport ==
    (/\ CtorEnded
     /\ m_is_liquid
     /\ Has(m_device, "supports_liquid")
     /\ m_device["supports_liquid"] = "none")
        => /\ ~Constructed
           /\ ctor_error.kind = "user_error"

\* C7 witness: a named hardware device whose JSON has no supports_liquid was
\* refused on a liquid network.
C7_Witness ==
    /\ ctor_pc = "failed"
    /\ m_is_liquid
    /\ Has(hw_device, "device")
    /\ Has(hw_device["device"], "name")
    /\ ~Has(hw_device["device"], "supports_liquid")
    /\ Has(m_device, "device_type") /\ m_device["device_type"] = "hardware"
    /\ ctor_error = UserError("id_the_hardware_wallet_you_are")

\* The credential forms a credentials object carries.
SeedForm(c) == Has(c, "mnemonic")

WatchOnlyForm(c) ==
    \/ Has(c, "username") /\ Has(c, "password")
    \/ Has(c, "core_descriptors")
    \/ Has(c, "slip132_extended_pubkeys")

NumForms(c) == (IF SeedForm(c) THEN 1 ELSE 0) + (IF WatchOnlyForm(c) THEN 1 ELSE 0)

\* C8 (as stated): with an empty hw_device, credentials carrying no form or
\* more than one form are rejected.
C8_Original ==
    (CtorEnded /\ IsEmptyJson(hw_device) /\ NumForms(credentials) # 1) => ~Constructed

\* C8 (amended): with an empty hw_device, credentials carrying no form are
\* rejected; credentials carrying more than one are not rejected for that:
\* the first form recognised is used and the rest is ignored. A username
\* with a password makes a watch-only signer whatever else is there, and
\* without a username a hex seed makes a software signer whatever
\* descriptors are there.
C8_AtLeastOneForm ==
    (CtorEnded /\ IsEmptyJson(hw_device)) =>
        /\ NumForms(credentials) = 0 => ~Constructed
        /\ (Has(credentials, "username") /\ Has(credentials, "password")) =>
               /\ Constructed
               /\ m_credentials = [username |-> credentials["username"],
                                   password |-> credentials["password"]]
               /\ m_device = WATCH_ONLY_DEVICE_JSON
        /\ (/\ ~Has(credentials, "username")
            /\ Has(credentials, "mnemonic") /\ credentials["mnemonic"] = HexSeedX
            /\ ~Has(credentials, "bip39_passphrase")) =>
               /\ Constructed
               /\ m_credentials = [seed |-> HexSeed]
               /\ m_device = SOFTWARE_DEVICE_JSON

\* C8 witness: a signer was constructed from credentials holding a username,
\* a password and a mnemonic.
C8_Witness ==
    /\ Constructed
    /\ IsEmptyJson(hw_device)
    /\ DOMAIN credentials = {"username", "password", "mnemonic"}

BothDescriptorKeys(c) == Has(c, "core_descriptors") /\ Has(c, "slip132_extended_pubkeys")

\* C9 (as stated): construction fails with a user error for every
\* credentials object that holds both core_descriptors and
\* slip132_extended_pubkeys.
C9_Original ==
    (CtorEnded /\ BothDescriptorKeys(credentials)) =>
        ~Constructed /\ ctor_error.kind = "user_error"

\* C9 (amended): construction fails with a user error for every credentials
\* object that holds both keys and neither a username nor a mnemonic that is
\* a word list or a hex seed; with one of those the descriptor keys are not
\* looked at.
C9_DescriptorsExclusive ==
    (/\ CtorEnded
     /\ BothDescriptorKeys(credentials)
     /\ ~Has(credentials, "username")
     /\ Has(credentials, "mnemonic") =>
            ~(HasSpace(credentials["mnemonic"]) \/ IsHexSeedX(credentials["mnemonic"])))
        => /\ ~Constructed
           /\ ctor_error = UserError("cannot use slip132_extended_pubkeys and core_descriptors")

\* C9 witness: credentials holding exactly the two descriptor keys were
\* refused.
C9_Witness ==
    /\ ctor_pc = "failed"
    /\ DOMAIN credentials = {"core_descriptors", "slip132_extended_pubkeys"}
    /\ ctor_error.kind = "user_error"

\* The fixed descriptor of a device type.
Canonical(device_type) ==
    IF device_type = "green-backend" THEN GREEN_DEVICE_JSON
    ELSE IF device_type = "watch-only" THEN WATCH_ONLY_DEVICE_JSON
    ELSE SOFTWARE_DEVICE_JSON

\* C10 (as stated): every constructed signer of type green-backend,
\* watch-only or software has the canonical descriptor of its type.
C10_Original ==
    (Constructed /\ m_device["device_type"] \in {"green-backend", "watch-only", "software"})
        => m_device = Canonical(m_device["device_type"])

\* C10 (amended): every constructed signer of type green-backend, and every
\* constructed watch-only or software signer whose descriptor was derived
\* from its credentials (the caller supplied no device JSON), has the
\* canonical descriptor of its type.
C10_CanonicalDescriptors ==
    (/\ Constructed
     /\ m_device["device_type"] \in {"green-backend", "watch-only", "software"}
     /\ m_device["device_type"] = "green-backend" \/ IsEmptyJson(DeviceOf(hw_device)))
        => m_device = Canonical(m_device["device_type"])

\* C10 witness: a green-backend signer was constructed from a device JSON
\* that asked for host unblinding, which the canonical descriptor denies.
C10_Witness ==
    /\ Constructed
    /\ m_device["device_type"] = "green-backend"
    /\ Has(hw_device["device"], "supports_host_unblinding")
    /\ hw_device["device"]["supports_host_unblinding"] = "true"

\* ------------------------------------------------------------ C11 .. C13

\* The descriptors are the same and so are the sanitised credentials.
SameDeviceAndCredentials == m_device = peer.m_device /\ m_credentials = peer.m_credentials

CapabilityFlags ==
    {"supports_low_r", "supports_arbitrary_scripts", "supports_host_unblinding",
     "supports_external_blinding"}

\* Descriptor e is descriptor d with one capability flag flipped.
OneFlagFlipped(d, e) ==
    /\ DOMAIN d = DOMAIN e
    /\ \E f \in CapabilityFlags \cap DOMAIN d :
          /\ d[f] # e[f]
          /\ \A k \in DOMAIN d \ {f} : d[k] = e[k]

CompatibilityCalls == {"is_compatible_with", "peer.is_compatible_with"}

\* C11: is_compatible_with answers true exactly when the two signers' device
\* descriptors are equal and their credentials without master_blinding_key
\* are equal, whichever signer is asked and whatever master blinding keys
\* set_master_blinding_key has given either of them; a signer is compatible
\* with itself, and two signers whose descriptors differ in one capability
\* flag are incompatible.
C11_Compatibility ==
    /\ last.op \in CompatibilityCalls => last.flag = SameDeviceAndCredentials
    /\ is_compatible_with(Me, peer) = SameDeviceAndCredentials
    /\ is_compatible_with(peer, Me) = is_compatible_with(Me, peer)
    /\ is_compatible_with(Me, Me) /\ is_compatible_with(peer, peer)
    /\ OneFlagFlipped(m_device, peer.m_device) => ~is_compatible_with(Me, peer)

\* C11 witness: is_compatible_with has answered true for two liquid signers
\* of which only the one asked holds a master blinding key, set by
\* set_master_blinding_key.
C11_Witness ==
    /\ last.op = "is_compatible_with" /\ last.flag
    /\ m_is_liquid /\ peer.m_is_liquid
    /\ ~Has(m_credentials, "seed")
    /\ m_master_blinding_key # NoBlindingKey
    /\ peer.m_master_blinding_key = NoBlindingKey

\* C12 (as stated): a signer that holds a master blinding key is liquid.
C12_BlindingKeyOnlyIfLiquid == m_master_blinding_key # NoBlindingKey => m_is_liquid

\* C13: sign_hash and sign_rec_hash fail on a signer without master_key,
\* whatever the cache holds, and neither changes the cache or the master
\* blinding key.
C13_SignNeedsMasterKey ==
    [][ (Completes("sign_hash") \/ Completes("sign_rec_hash")) =>
          /\ m_master_key = NoKey => last'.out = "assertion"
          /\ last'.out = "assertion" => last'.xpub = NoSig
          /\ m_cached_bip32_xpubs' = m_cached_bip32_xpubs
          /\ m_master_blinding_key' = m_master_blinding_key ]_vars

\* C13 witness: sign_hash has failed on a signer without master_key for a
\* path whose xpub is cached.
C13_Witness ==
    /\ last.op = "sign_hash" /\ last.out = "assertion"
    /\ m_master_key = NoKey
    /\ last.path \in DOMAIN m_cached_bip32_xpubs

\* ================================================================= ga_psbt

\* ------------------------------------------------------------------ bytes

\* Bytes are the numbers 0..3; hex text has one two-digit string per byte.
HexOf(n) == <<"00", "01", "02", "03">>[n + 1]

b2h(bytes) == [i \in 1..Len(bytes) |-> HexOf(bytes[i])]

b2h_rev(bytes) == [i \in 1..Len(bytes) |-> HexOf(bytes[Len(bytes) + 1 - i])]

\* PSBT input field tags (lines 22-23).
in_redeem_script == 4

in_witness_script == 5

\* PSET input and output field tags (lines 46-59).
in_value_proof == 18

in_explicit_asset == 19

in_asset_proof == 20

out_value_commitment == 1

out_asset == 2

out_asset_commitment == 3

out_value_rangeproof == 4

out_asset_surjection_proof == 5

out_blinding_pubkey == 6

out_ecdh_pubkey == 7

out_blind_value_proof == 9

out_blind_asset_proof == 10

\* Lines 68-85: get_field / pset_field, with the empty sequence for "no value".
NoField == <<>>

has_field(m, k) == k \in DOMAIN m

pset_field(src, k) == IF has_field(src.pset_fields, k) THEN src.pset_fields[k] ELSE NoField

\* Lines 63-66: set_field / wally_map_add_integer keeps an existing entry.
set_field(m, k, value) == IF has_field(m, k) THEN m ELSE (k :> value) @@ m

\* wally_map_replace_integer, behind the wally_psbt_set_* calls.
replace_field(m, k, value) == (k :> value) @@ m

\* ------------------------------------------------------- struct wally_psbt

\* The output fields an Elements transaction itself carries.
TxOutFields ==
    {out_value_commitment, out_asset, out_asset_commitment, out_value_rangeproof,
     out_asset_surjection_proof, out_ecdh_pubkey}

WALLY_PSBT_VERSION_2 == 2

WallyError(msg) == [kind |-> "wally_error", msg |-> msg]

\* A version 2 input carries its outpoint and sequence; in version 0 they
\* are in the global transaction and the input's own copies are blank.
BlankOutpoint == [txhash |-> "", index |-> 0, sequence |-> 0]

\* A version 2 output carries its amount and script; in version 0 they are
\* in the global transaction.
BlankTxOut == [has_amount |-> FALSE, amount |-> 0, script |-> <<>>]

\* The version 0 global transaction: outpoints and outputs, no signatures.
GlobalTx(p) ==
    [present |-> TRUE, version |-> p.tx_version, locktime |-> p.fallback_locktime,
     inputs |-> [i \in 1..Len(p.inputs) |->
                    [txhash |-> p.inputs[i].txhash, index |-> p.inputs[i].index,
                     sequence |-> p.inputs[i].sequence, script |-> <<>>, witness |-> <<>>]],
     outputs |-> [i \in 1..Len(p.outputs) |->
                    [satoshi |-> p.outputs[i].amount, script |-> p.outputs[i].script,
                     fields |-> <<>>]]]

\* psbt_v0_to_v2: the global transaction moves into the per-input and
\* per-output fields.
psbt_v0_to_v2(p) ==
    [p EXCEPT !.version = 2,
              !.tx = NoTx,
              !.tx_version = p.tx.version,
              !.fallback_locktime = p.tx.locktime,
              !.inputs = [i \in 1..Len(p.inputs) |->
                            [p.inputs[i] EXCEPT !.txhash = p.tx.inputs[i].txhash,
                                                !.index = p.tx.inputs[i].index,
                                                !.sequence = p.tx.inputs[i].sequence]],
              !.outputs = [i \in 1..Len(p.outputs) |->
                            [p.outputs[i] EXCEPT !.has_amount = TRUE,
                                                 !.amount = p.tx.outputs[i].satoshi,
                                                 !.script = p.tx.outputs[i].script]]]

\* psbt_v2_to_v0: the per-input and per-output fields move into a global
\* transaction.
psbt_v2_to_v0(p) ==
    [p EXCEPT !.version = 0,
              !.tx = GlobalTx(p),
              !.tx_version = 0,
              !.fallback_locktime = 0,
              !.inputs = [i \in 1..Len(p.inputs) |->
                            [p.inputs[i] EXCEPT !.txhash = BlankOutpoint.txhash,
                                                !.index = BlankOutpoint.index,
                                                !.sequence = BlankOutpoint.sequence]],
              !.outputs = [i \in 1..Len(p.outputs) |->
                            [p.outputs[i] EXCEPT !.has_amount = BlankTxOut.has_amount,
                                                 !.amount = BlankTxOut.amount,
                                                 !.script = BlankTxOut.script]]]

\* wally_psbt_set_version: a PSET has no version 0.
wally_psbt_set_version(p, version) ==
    IF version \notin {0, 2} THEN [ok |-> FALSE, psbt |-> p]
    ELSE IF p.version = version THEN [ok |-> TRUE, psbt |-> p]
    ELSE IF p.version = 0 THEN [ok |-> TRUE, psbt |-> psbt_v0_to_v2(p)]
    ELSE IF p.magic = "pset" THEN [ok |-> FALSE, psbt |-> p]
    ELSE [ok |-> TRUE, psbt |-> psbt_v2_to_v0(p)]

\* wally_psbt_is_elements
wally_psbt_is_elements(p) == p.magic = "pset"

\* wally_psbt_to_base64: the magic, the global map, then one map per input
\* and one per output.  Version 2 writes the counts; version 0 writes the
\* unsigned transaction.
wally_psbt_to_base64(p, redundant) ==
    LET global == IF p.version = 0
                  THEN [version |-> 0, redundant |-> redundant, unsigned_tx |-> p.tx,
                        tx_version |-> 0, fallback_locktime |-> 0,
                        input_count |-> 0, output_count |-> 0]
                  ELSE [version |-> 2, redundant |-> redundant, unsigned_tx |-> NoTx,
                        tx_version |-> p.tx_version, fallback_locktime |-> p.fallback_locktime,
                        input_count |-> Len(p.inputs), output_count |-> Len(p.outputs)]
    IN  [magic |-> p.magic, global |-> global, maps |-> p.inputs \o p.outputs]

\* What is not base64 of a PSBT.
Garbage == [magic |-> "????", global |-> <<>>, maps |-> <<>>]

\* wally_psbt_from_base64
wally_psbt_from_base64(base64) ==
    IF base64.magic \notin {"psbt", "pset"}
    THEN [ok |-> FALSE, psbt |-> NoWallyPsbt]
    ELSE LET g == base64.global
             ni == IF g.version = 0 THEN Len(g.unsigned_tx.inputs) ELSE g.input_count
             no == IF g.version = 0 THEN Len(g.unsigned_tx.outputs) ELSE g.output_count
         IN  IF Len(base64.maps) # ni + no \/ (g.version = 0 /\ base64.magic = "pset")
             THEN [ok |-> FALSE, psbt |-> NoWallyPsbt]
             ELSE [ok |-> TRUE,
                   psbt |-> [magic |-> base64.magic, version |-> g.version, tx |-> g.unsigned_tx,
                             tx_version |-> g.tx_version,
                             fallback_locktime |-> g.fallback_locktime,
                             inputs |-> SubSeq(base64.maps, 1, ni),
                             outputs |-> SubSeq(base64.maps, ni + 1, ni + no)]]

\* wally_psbt_extract(WALLY_PSBT_EXTRACT_OPT_FINAL): the transaction of a
\* version 2 structure, with whatever final data the inputs carry.
wally_psbt_extract(p) ==
    [present |-> TRUE, version |-> p.tx_version, locktime |-> p.fallback_locktime,
     inputs |-> [i \in 1..Len(p.inputs) |->
                    [txhash |-> p.inputs[i].txhash, index |-> p.inputs[i].index,
                     sequence |-> p.inputs[i].sequence,
                     script |-> p.inputs[i].final_scriptsig,
                     witness |-> p.inputs[i].final_witness]],
     outputs |-> [i \in 1..Len(p.outputs) |->
                    [satoshi |-> p.outputs[i].amount, script |-> p.outputs[i].script,
                     fields |-> [k \in DOMAIN p.outputs[i].pset_fields \cap TxOutFields |->
                                    p.outputs[i].pset_fields[k]]]]]

\* wally_psbt_from_tx: a PSET is version 2 only; signatures are not taken.
NoUtxo == [present |-> FALSE, satoshi |-> 0]

NoBlinderIndex == [present |-> FALSE, value |-> 0]

wally_psbt_from_tx(tx, version, is_pset) ==
    LET v2 == [magic |-> IF is_pset THEN "pset" ELSE "psbt", version |-> 2, tx |-> NoTx,
               tx_version |-> tx.version, fallback_locktime |-> tx.locktime,
               inputs |-> [i \in 1..Len(tx.inputs) |->
                             [txhash |-> tx.inputs[i].txhash, index |-> tx.inputs[i].index,
                              sequence |-> tx.inputs[i].sequence, utxo |-> NoUtxo,
                              has_amount |-> FALSE, amount |-> 0, pset_fields |-> <<>>,
                              psbt_fields |-> <<>>, keypaths |-> {},
                              final_witness |-> <<>>, final_scriptsig |-> <<>>]],
               outputs |-> [i \in 1..Len(tx.outputs) |->
                             [has_amount |-> TRUE, amount |-> tx.outputs[i].satoshi,
                              script |-> tx.outputs[i].script,
                              pset_fields |-> tx.outputs[i].fields, keypaths |-> {},
                              blinder_index |-> NoBlinderIndex]]]
    IN  IF version \notin {0, 2} \/ (is_pset /\ version # 2)
        THEN [ok |-> FALSE, psbt |-> NoWallyPsbt]
        ELSE [ok |-> TRUE, psbt |-> IF version = 0 THEN psbt_v2_to_v0(v2) ELSE v2]

\* --------------------------------------------- Psbt::Psbt(base64, is_liquid)

\* (mutant) The Elements flag is not compared.
PsbtMismatchIgnored(is_liquid, val) == FALSE

\* Line 166
PsbtMismatch(is_liquid, val) == is_liquid # val

\* (mutant) The structure stays at the version it was read at.
UpgradeSkipped(p) == [ok |-> TRUE, psbt |-> p]

\* Lines 171-173: upgrade to version 2.
Upgrade(p) == wally_psbt_set_version(p, WALLY_PSBT_VERSION_2)

\* What a call on a Psbt hands back: the object afterwards, and what was
\* returned or thrown.
Made(obj, value) == [psbt |-> obj, error |-> NoError, value |-> value, calls |-> <<>>]

Failed(obj, error) == [psbt |-> obj, error |-> error, value |-> <<>>, calls |-> <<>>]

\* A call the session served for input or output number index (from 0).
Call(name, of, index) == [call |-> name, of |-> of, index |-> index]

\* The outcome r of a call that made these calls on the session, in order.
Logged(r, made) == [r EXCEPT !.calls = made]

\* Lines 156-174.  A constructor that throws leaves no object.
PsbtFromBase64(psbt_base64, is_liquid) ==
    LET r == wally_psbt_from_base64(psbt_base64)
    IN  IF ~r.ok THEN Failed(NoPsbt, WallyError("wally_psbt_from_base64"))
        ELSE IF PsbtMismatch(is_liquid, wally_psbt_is_elements(r.psbt))
        THEN Failed(NoPsbt, UserError("PSBT/PSET mismatch"))
        ELSE LET u == Upgrade(r.psbt)
             IN  IF ~u.ok THEN Failed(NoPsbt, WallyError("wally_psbt_set_version"))
                 ELSE Made([m_is_liquid |-> is_liquid, m_original_version |-> r.psbt.version,
                            m_psbt |-> u.psbt], <<>>)

\* --------------------------------------------------------- Psbt::to_base64

\* (mutant) The version is set on m_psbt itself.
DowngradedInPlace(m_psbt, downgraded) == downgraded

\* Lines 203-209: the downgrade is applied to a clone; m_psbt stays as it is.
DowngradedClone(m_psbt, downgraded) == m_psbt

\* Lines 200-216.
to_base64(obj, include_redundant) ==
    IF obj.m_original_version # WALLY_PSBT_VERSION_2
    THEN LET d == wally_psbt_set_version(obj.m_psbt, obj.m_original_version)
         IN  IF ~d.ok THEN Failed(obj, WallyError("wally_psbt_set_version"))
             ELSE Made([obj EXCEPT !.m_psbt = DowngradedClone(obj.m_psbt, d.psbt)],
                       wally_psbt_to_base64(d.psbt, include_redundant))
    ELSE Made(obj, wally_psbt_to_base64(obj.m_psbt, include_redundant))

\* ------------------------------------------------------------ Psbt::extract

\* Lines 191-198.
extract(obj) == wally_psbt_extract(obj.m_psbt)

\* -------------------------------------- Psbt::set_input_finalization_data

\* Lines 231-236: index is checked against the transaction's inputs and
\* against the structure's.
set_input_finalization_data(obj, index, tx) ==
    IF ~(index < Len(tx.inputs)) THEN Failed(obj, AssertionError("index"))
    ELSE IF ~(index < Len(obj.m_psbt.inputs))
    THEN Failed(obj, WallyError("wally_psbt_set_input_final_witness"))
    ELSE Made([obj EXCEPT !.m_psbt.inputs[index + 1].final_witness = tx.inputs[index + 1].witness,
                          !.m_psbt.inputs[index + 1].final_scriptsig = tx.inputs[index + 1].script],
              <<>>)

\* ------------------------------------------------------------ JSON access

j_str_or_empty(json, key) == IF Has(json, key) THEN json[key] ELSE ""

j_bool_or_false(json, key) == IF Has(json, key) THEN json[key] ELSE FALSE

\* "btc" off liquid, the asset_id element on liquid.
j_assetref(is_liquid, json) == IF is_liquid THEN json["asset_id"] ELSE <<"btc">>

j_amountref(json) == json["satoshi"]

\* Script text is empty or absent.
j_str_is_empty(json, key) == ~Has(json, key) \/ json[key] = <<>>

JsonUpdate(json, other) == other @@ json

\* amount::value_type is unsigned: sums wrap (64 bits, scaled to 8 here).
AmountModulus == 256

amount_add(a, b) == (a + b) % AmountModulus

amount_sub(a, b) == (a - b + AmountModulus) % AmountModulus

\* ------------------------------------------------------ Psbt::inputs_to_json

\* Tx::input_to_json
tx_input_to_json(tx, i) ==
    [txhash |-> tx.inputs[i].txhash, pt_idx |-> tx.inputs[i].index,
     sequence |-> tx.inputs[i].sequence]

\* Lines 312-322: the first utxo of the array with this outpoint, if any.
RECURSIVE take_matching_utxo(_, _, _, _)
take_matching_utxo(utxos, txhash_hex, vout, k) ==
    IF k > Len(utxos) THEN [found |-> FALSE, utxo |-> EmptyJson]
    ELSE IF ~IsEmptyJson(utxos[k]) /\ utxos[k]["pt_idx"] = vout /\ utxos[k]["txhash"] = txhash_hex
    THEN [found |-> TRUE, utxo |-> utxos[k]]
    ELSE take_matching_utxo(utxos, txhash_hex, vout, k + 1)

\* Lines 339-350: utxos is a flat array, or arrays keyed by asset; here a
\* sequence of the arrays, one long for the flat form.
RECURSIVE find_wallet_utxo(_, _, _, _)
find_wallet_utxo(utxos, txhash_hex, vout, g) ==
    IF g > Len(utxos.arrays) THEN [found |-> FALSE, utxo |-> EmptyJson]
    ELSE LET m == take_matching_utxo(utxos.arrays[g], txhash_hex, vout, 1)
         IN  IF m.found THEN m ELSE find_wallet_utxo(utxos, txhash_hex, vout, g + 1)

\* Line 93: std::string(key) + " not found"
NotFound(key) ==
    CASE key = "asset_id" -> "asset_id not found"
      [] key = "value_blind_proof" -> "value_blind_proof not found"
      [] key = "asset_blind_proof" -> "asset_blind_proof not found"
      [] key = "commitment" -> "commitment not found"
      [] key = "asset_tag" -> "asset_tag not found"
      [] key = "range_proof" -> "range_proof not found"
      [] key = "surj_proof" -> "surj_proof not found"
      [] key = "blinding_key" -> "blinding_key not found"
      [] OTHER -> "eph_public_key not found"

\* Lines 87-96: the field as hex under key, or the error thrown without it.
set_pset_field(src, dst, key, k, do_reverse) ==
    IF ~has_field(src.pset_fields, k)
    THEN [error |-> UserError(NotFound(key)), json |-> dst]
    ELSE [error |-> NoError,
          json |-> JsonSet(dst, key, IF do_reverse THEN b2h_rev(src.pset_fields[k])
                                     ELSE b2h(src.pset_fields[k]))]

\* (mutant) An input without one of the explicit fields is marked like one
\* without has_amount.
NonWalletLiquidInputMarked(psbt_input, utxo) ==
    IF /\ psbt_input.has_amount
       /\ {in_explicit_asset, in_value_proof, in_asset_proof} \subseteq DOMAIN psbt_input.pset_fields
    THEN set_pset_field(psbt_input,
             set_pset_field(psbt_input,
                 set_pset_field(psbt_input, JsonSet(utxo, "satoshi", psbt_input.amount),
                                "asset_id", in_explicit_asset, TRUE).json,
                 "value_blind_proof", in_value_proof, FALSE).json,
             "asset_blind_proof", in_asset_proof, FALSE)
    ELSE [error |-> NoError, json |-> JsonSet(utxo, "error", "failed to unblind utxo")]

\* Lines 388-396: a non-wallet input on liquid.
NonWalletLiquidInput(psbt_input, utxo) ==
    IF psbt_input.has_amount
    THEN LET a == set_pset_field(psbt_input, JsonSet(utxo, "satoshi", psbt_input.amount),
                                 "asset_id", in_explicit_asset, TRUE)
             v == set_pset_field(psbt_input, a.json, "value_blind_proof", in_value_proof, FALSE)
             p == set_pset_field(psbt_input, v.json, "asset_blind_proof", in_asset_proof, FALSE)
         IN  IF a.error # NoError THEN a
             ELSE IF v.error # NoError THEN v
             ELSE p
    ELSE [error |-> NoError, json |-> JsonSet(utxo, "error", "failed to unblind utxo")]

\* Lines 361-381: a wallet input.  The paths and the dummy signatures come
\* from the session.
WalletInput(utxo) ==
    JsonSet([k \in DOMAIN utxo \ {"user_status", "witness", "script_sig"} |-> utxo[k]],
            "user_path", <<"path">>)

DummySigned(txin) ==
    [txin EXCEPT !.script = IF txin.script = <<>> THEN <<"dummy">> ELSE @,
                 !.witness = IF txin.witness = <<>> THEN <<"dummy">> ELSE @]

\* session.get_raw_transaction_details: the previous transaction, or the
\* error thrown when the session cannot find it.
get_raw_transaction_details(session, txhash) ==
    IF txhash \in session.fetch_fails
    THEN [error |-> UserError("Transaction not found"), satoshi |-> 0]
    ELSE [error |-> NoError, satoshi |-> session.prevout_satoshi]

\* (mutant) The previous transaction is fetched whether or not the input has
\* a utxo.
NeedsUtxoAlways(psbt_input) == TRUE

\* Lines 352-354: wally_psbt_get_input_best_utxo gave nothing.
NeedsUtxo(psbt_input) == ~psbt_input.utxo.present

\* Lines 331-402: input i (from 1).  st holds the structure, the extracted
\* transaction, the inputs made so far, the wallet's assets and the error
\* thrown, if any.
InputToJson(is_liquid, session, utxos, st, i) ==
    LET psbt_input == st.m_psbt.inputs[i]
        raw == tx_input_to_json(st.tx, i)
        m == find_wallet_utxo(utxos, raw.txhash, psbt_input.index, 1)
        belongs_to_wallet == m.found
        utxo == IF m.found THEN m.utxo ELSE raw
        fetch == NeedsUtxo(psbt_input)
        utxo_tx == get_raw_transaction_details(session, raw.txhash)
        best == IF fetch THEN [present |-> TRUE, satoshi |-> utxo_tx.satoshi]
                ELSE psbt_input.utxo
        asked == IF fetch
                 THEN [st EXCEPT !.calls = Append(@, Call("get_raw_transaction_details",
                                                          "input", i - 1))]
                 ELSE st
        with_utxo == [asked EXCEPT !.m_psbt.inputs[i].utxo = best]
    IN  IF fetch /\ utxo_tx.error # NoError
        THEN [asked EXCEPT !.error = utxo_tx.error]
        ELSE IF belongs_to_wallet
        THEN [with_utxo EXCEPT !.wallet_assets = @ \cup {j_assetref(is_liquid, utxo)},
                               !.tx.inputs[i] = DummySigned(@),
                               !.inputs = Append(@, WalletInput(utxo))]
        ELSE LET skipped == JsonSet(utxo, "skip_signing", TRUE)
                 r == IF ~is_liquid
                      THEN [error |-> NoError, json |-> JsonSet(skipped, "satoshi", best.satoshi)]
                      ELSE NonWalletLiquidInput(psbt_input, skipped)
             IN  IF r.error # NoError
                 THEN [with_utxo EXCEPT !.error = r.error]
                 ELSE [with_utxo EXCEPT !.inputs = Append(@, r.json)]

RECURSIVE inputs_loop(_, _, _, _, _)
inputs_loop(is_liquid, session, utxos, st, i) ==
    IF i > Len(st.m_psbt.inputs) \/ st.error # NoError THEN st
    ELSE inputs_loop(is_liquid, session, utxos, InputToJson(is_liquid, session, utxos, st, i), i + 1)

\* Lines 324-405.
inputs_to_json(obj, session, tx, utxos) ==
    inputs_loop(obj.m_is_liquid, session, utxos,
                [error |-> NoError, m_psbt |-> obj.m_psbt, tx |-> tx, inputs |-> <<>>,
                 wallet_assets |-> {}, calls |-> <<>>], 1)

\* ----------------------------------------------------- Psbt::outputs_to_json

\* wally_psbt_get_output_blinding_status
BlindingFields ==
    {out_value_commitment, out_asset_commitment, out_value_rangeproof,
     out_asset_surjection_proof, out_ecdh_pubkey}

wally_psbt_get_output_blinding_status(txout) ==
    IF ~has_field(txout.pset_fields, out_blinding_pubkey) THEN "WALLY_PSET_BLINDED_NONE"
    ELSE IF BlindingFields \subseteq DOMAIN txout.pset_fields THEN "WALLY_PSET_BLINDED_FULL"
    ELSE IF BlindingFields \cap DOMAIN txout.pset_fields = {} THEN "WALLY_PSET_BLINDED_REQUIRED"
    ELSE "WALLY_PSET_BLINDED_PARTIAL"

\* Lines 440-448: the fields copied from a fully blinded output, in order.
BlindedOutputFields ==
    << <<"commitment", out_value_commitment>>, <<"asset_tag", out_asset_commitment>>,
       <<"range_proof", out_value_rangeproof>>, <<"surj_proof", out_asset_surjection_proof>>,
       <<"blinding_key", out_blinding_pubkey>>, <<"eph_public_key", out_ecdh_pubkey>>,
       <<"value_blind_proof", out_blind_value_proof>>,
       <<"asset_blind_proof", out_blind_asset_proof>> >>

RECURSIVE set_pset_fields(_, _, _, _)
set_pset_fields(src, dst, fields, k) ==
    IF k > Len(fields) THEN [error |-> NoError, json |-> dst]
    ELSE LET r == set_pset_field(src, dst, fields[k][1], fields[k][2], FALSE)
         IN  IF r.error # NoError THEN r ELSE set_pset_fields(src, r.json, fields, k + 1)

\* session.get_scriptpubkey_data
get_scriptpubkey_data(session, script) ==
    IF script \in session.wallet_scripts
    THEN [subaccount |-> 0, pointer |-> 1, is_internal |-> session.internal_chain,
          address_type |-> "p2wsh"]
    ELSE EmptyJson

\* unblind_output
unblind_output(session, txout) ==
    IF session.unblind_fails
    THEN [error |-> "failed to unblind"]
    ELSE [satoshi |-> txout.amount, asset_id |-> b2h_rev(pset_field(txout, out_asset)),
          assetblinder |-> <<"abf">>, amountblinder |-> <<"vbf">>]

\* j_rename
j_rename(json, from, to) ==
    IF Has(json, from)
    THEN JsonSet([k \in DOMAIN json \ {from} |-> json[k]], to, json[from])
    ELSE json

JsonEraseAll(json, keys) == [k \in DOMAIN json \ keys |-> json[k]]

\* What the loop body leaves for output i: the JSON, the error thrown if
\* any, and how the output counts in change detection ("wallet", "spent"
\* or "none").
OutputDone(json, counts) ==
    [error |-> NoError, json |-> json, counts |-> counts, calls |-> <<>>]

OutputFailed(error) == [error |-> error, json |-> EmptyJson, counts |-> "none", calls |-> <<>>]

\* Lines 457-477: the output with its address, and for a wallet output its
\* script data, unblinded values and paths.
OutputOwned(session, txout, jsonout, output_data, unblinded) ==
    IF IsEmptyJson(output_data)
    THEN JsonSet(jsonout, "address", <<"address of", txout.script>>)
    ELSE LET data == JsonUpdate(jsonout, JsonUpdate(output_data, unblinded))
             paths == JsonSet(JsonSet(data, "address", <<"address of", txout.script>>),
                              "user_path", <<"path">>)
         IN  IF session.is_electrum
             THEN JsonEraseAll(j_rename(paths, "is_internal", "is_change"), {"branch", "subtype"})
             ELSE paths

\* Lines 478-491: the confidential address of a liquid output.
Confidential(is_liquid, is_wallet_output, owned) ==
    IF ~is_liquid THEN owned
    ELSE LET c == IF Has(owned, "blinding_key")
                  THEN JsonSet(JsonSet(JsonSet(owned, "is_confidential", TRUE),
                                       "unconfidential_address", owned["address"]),
                               "address", <<"confidential">> \o owned["address"])
                  ELSE JsonSet(owned, "is_confidential", FALSE)
         IN  IF ~is_wallet_output
             THEN JsonEraseAll(c, {"is_confidential", "unconfidential_address"})
             ELSE c

\* (mutant) Outputs to others are not recorded as spending the asset.
OutputCountedWalletOnly(is_liquid, session, wallet_assets, is_wallet_output, conf) ==
    OutputDone(conf, IF /\ ~session.is_electrum
                        /\ j_assetref(is_liquid, conf) \in wallet_assets
                        /\ is_wallet_output
                     THEN "wallet" ELSE "none")

\* Lines 492-501: how the output counts in change detection.
OutputCounted(is_liquid, session, wallet_assets, is_wallet_output, conf) ==
    OutputDone(conf, IF ~session.is_electrum /\ j_assetref(is_liquid, conf) \in wallet_assets
                     THEN (IF is_wallet_output THEN "wallet" ELSE "spent")
                     ELSE "none")

\* Lines 466-470: a wallet output that fails to unblind is left as it is.
OutputUnblinded(is_liquid, session, wallet_assets, txout, jsonout, output_data, unblinded) ==
    IF Has(unblinded, "error") THEN OutputDone(jsonout, "none")
    ELSE OutputCounted(is_liquid, session, wallet_assets, ~IsEmptyJson(output_data),
                       Confidential(is_liquid, ~IsEmptyJson(output_data),
                                    OutputOwned(session, txout, jsonout, output_data, unblinded)))

\* Lines 453-465: the wallet test, and the unblinding of a liquid wallet output.
OutputWallet(is_liquid, session, wallet_assets, txout, jsonout, output_data) ==
    Logged(OutputUnblinded(is_liquid, session, wallet_assets, txout, jsonout, output_data,
                           IF ~IsEmptyJson(output_data) /\ is_liquid
                           THEN unblind_output(session, txout) ELSE EmptyJson),
           IF ~IsEmptyJson(output_data) /\ is_liquid
           THEN <<"get_scriptpubkey_data", "unblind_output">>
           ELSE <<"get_scriptpubkey_data">>)

\* Lines 453-501: from the wallet test to the change bookkeeping.
OutputTail(is_liquid, session, wallet_assets, txout, jsonout) ==
    OutputWallet(is_liquid, session, wallet_assets, txout, jsonout,
                 get_scriptpubkey_data(session, txout.script))

FeeOutputSpent(j) == OutputDone(JsonSet(j, "scriptpubkey", <<>>), "spent")

\* Lines 434-438: the unblinded output is the fee; the loop continues with
\* the next output, before the wallet test and change detection.
FeeOutput(j) == OutputDone(JsonSet(j, "scriptpubkey", <<>>), "none")

\* Lines 418-452, then the tail.
OutputToJson(is_liquid, session, wallet_assets, txout) ==
    IF ~is_liquid
    THEN IF ~txout.has_amount THEN OutputFailed(AssertionError("txout.has_amount"))
         ELSE IF txout.script = <<>> THEN OutputFailed(AssertionError("txout.script"))
         ELSE OutputTail(is_liquid, session, wallet_assets, txout,
                         [satoshi |-> txout.amount, scriptpubkey |-> b2h(txout.script)])
    ELSE LET a == set_pset_field(txout, EmptyJson, "asset_id", out_asset, TRUE)
             status == wally_psbt_get_output_blinding_status(txout)
         IN  IF a.error # NoError THEN OutputFailed(a.error)
             ELSE IF ~txout.has_amount THEN OutputFailed(AssertionError("txout.has_amount"))
             ELSE LET j == JsonSet(a.json, "satoshi", txout.amount)
                  IN  IF status = "WALLY_PSET_BLINDED_NONE"
                      THEN IF txout.script # <<>> THEN OutputFailed(AssertionError("!txout.script"))
                           ELSE FeeOutput(j)
                      ELSE IF status # "WALLY_PSET_BLINDED_FULL"
                      THEN OutputFailed(AssertionError("WALLY_PSET_BLINDED_FULL"))
                      ELSE LET f == set_pset_fields(txout, j, BlindedOutputFields, 1)
                           IN  IF f.error # NoError THEN OutputFailed(f.error)
                               ELSE IF txout.script = <<>>
                               THEN OutputFailed(AssertionError("txout.script"))
                               ELSE OutputTail(is_liquid, session, wallet_assets, txout,
                                               JsonSet(f.json, "scriptpubkey", b2h(txout.script)))

\* Lines 503-520: the first wallet output of each asset the wallet funds is
\* change when the asset is also spent externally or has more wallet outputs.
RECURSIVE ChangeMarked(_, _, _, _)
ChangeMarked(is_liquid, session, done, marked) ==
    IF Len(marked) = Len(done) THEN marked
    ELSE LET i == Len(marked) + 1
             asset == j_assetref(is_liquid, done[i].json)
             wallet == { k \in 1..Len(done) : /\ done[k].counts = "wallet"
                                              /\ j_assetref(is_liquid, done[k].json) = asset }
             spent == \E k \in 1..Len(done) : /\ done[k].counts = "spent"
                                              /\ j_assetref(is_liquid, done[k].json) = asset
             first == done[i].counts = "wallet" /\ \A k \in wallet : i <= k
         IN  ChangeMarked(is_liquid, session, done,
                          Append(marked,
                                 IF ~session.is_electrum /\ first
                                 THEN JsonSet(done[i].json, "is_change",
                                              spent \/ Cardinality(wallet) > 1)
                                 ELSE done[i].json))

\* Lines 418-501 for each output in turn, up to the first that throws.
RECURSIVE outputs_loop(_, _, _, _, _)
outputs_loop(is_liquid, session, wallet_assets, outs, done) ==
    IF Len(done) = Len(outs) THEN [error |-> NoError, done |-> done]
    ELSE LET r == OutputToJson(is_liquid, session, wallet_assets, outs[Len(done) + 1])
         IN  IF r.error # NoError THEN [error |-> r.error, done |-> Append(done, r)]
             ELSE outputs_loop(is_liquid, session, wallet_assets, outs, Append(done, r))

\* The calls the loop made on the session: those of each output it reached.
RECURSIVE OutputCalls(_, _)
OutputCalls(done, i) ==
    IF i > Len(done) THEN <<>>
    ELSE [k \in 1..Len(done[i].calls) |-> Call(done[i].calls[k], "output", i - 1)]
         \o OutputCalls(done, i + 1)

\* Lines 407-522.
outputs_to_json(obj, session, wallet_assets) ==
    LET l == outputs_loop(obj.m_is_liquid, session, wallet_assets, obj.m_psbt.outputs, <<>>)
    IN  IF l.error # NoError
        THEN [error |-> l.error, outputs |-> <<>>, calls |-> OutputCalls(l.done, 1)]
        ELSE [error |-> NoError,
              outputs |-> ChangeMarked(obj.m_is_liquid, session, l.done, <<>>),
              calls |-> OutputCalls(l.done, 1)]

\* -------------------------------------------------------- Psbt::get_details

\* Lines 262-276: the last input error, whether an input that is not
\* skipped has one, and the sum of the inputs without error (on liquid, of
\* the policy asset).
RECURSIVE inputs_sum(_, _, _, _, _)
inputs_sum(is_liquid, policy_asset, inputs, acc, i) ==
    IF i > Len(inputs) THEN acc
    ELSE LET input == inputs[i]
             txin_error == j_str_or_empty(input, "error")
         IN  IF txin_error # ""
             THEN inputs_sum(is_liquid, policy_asset, inputs,
                             [acc EXCEPT !.error = txin_error,
                                         !.use_error = @ \/ ~j_bool_or_false(input, "skip_signing")],
                             i + 1)
             ELSE IF ~is_liquid \/ j_assetref(is_liquid, input) = policy_asset
             THEN inputs_sum(is_liquid, policy_asset, inputs,
                             [acc EXCEPT !.sum = amount_add(@, j_amountref(input))], i + 1)
             ELSE inputs_sum(is_liquid, policy_asset, inputs, acc, i + 1)

\* Lines 277-285: the explicit fee outputs, and the sum less the others.
RECURSIVE outputs_sum(_, _, _, _, _)
outputs_sum(is_liquid, policy_asset, outputs, acc, i) ==
    IF i > Len(outputs) THEN acc
    ELSE LET txout == outputs[i]
         IN  IF ~is_liquid \/ j_assetref(is_liquid, txout) = policy_asset
             THEN IF is_liquid /\ j_str_is_empty(txout, "scriptpubkey")
                  THEN outputs_sum(is_liquid, policy_asset, outputs,
                                   [acc EXCEPT !.explicit_fee = amount_add(@, j_amountref(txout))],
                                   i + 1)
                  ELSE outputs_sum(is_liquid, policy_asset, outputs,
                                   [acc EXCEPT !.sum = amount_sub(@, j_amountref(txout))], i + 1)
             ELSE outputs_sum(is_liquid, policy_asset, outputs, acc, i + 1)

\* (mutant) Only the error of an input that is not skipped excuses a fee
\* mismatch.
FeeAssertionStrict(is_liquid, acc) ==
    ~is_liquid \/ acc.sum = acc.explicit_fee \/ acc.use_error

\* Line 287
FeeAssertion(is_liquid, acc) == ~is_liquid \/ acc.sum = acc.explicit_fee \/ acc.error # ""

\* (mutant) The last input error is always reported.
ReportErrorAlways(acc) == acc.error # ""

\* Line 296
ReportError(acc) == acc.use_error

\* update_tx_info
update_tx_info(tx, result) ==
    JsonSet(result, "calculated_fee_rate",
            (result["fee"] * 1000) \div (Len(tx.inputs) + Len(tx.outputs)))

\* Tx::get_txid: signatures are not part of it.
get_txid(tx) ==
    [tx EXCEPT !.inputs = [i \in 1..Len(tx.inputs) |->
                              [tx.inputs[i] EXCEPT !.script = <<>>, !.witness = <<>>]]]

\* Lines 299-307
DetailsFinished(is_liquid, erred) ==
    JsonSet(IF is_liquid
            THEN JsonSet(JsonSet(erred, "fee_rate", erred["calculated_fee_rate"]),
                         "is_blinded", TRUE)
            ELSE JsonSet(erred, "fee_rate", erred["calculated_fee_rate"]),
            "utxo_strategy", "manual")

\* Lines 296-298
DetailsErred(is_liquid, acc, info) ==
    DetailsFinished(is_liquid, IF ReportError(acc) /\ ~Has(info, "error")
                               THEN JsonSet(info, "error", acc.error) ELSE info)

\* (mutant) The fee is not checked.
DetailsSummedUnchecked(seen, ia, oj, acc) ==
    Made(seen,
         DetailsErred(seen.m_is_liquid, acc,
                      JsonSet(update_tx_info(ia.tx,
                                  [transaction |-> ia.tx, transaction_inputs |-> ia.inputs,
                                   transaction_outputs |-> oj.outputs,
                                   fee |-> IF seen.m_is_liquid THEN acc.explicit_fee ELSE acc.sum,
                                   network_fee |-> 0]),
                              "txhash", get_txid(ia.tx))))

\* Lines 287-295
DetailsSummed(seen, ia, oj, acc) ==
    IF ~FeeAssertion(seen.m_is_liquid, acc)
    THEN Failed(seen, AssertionError("sum == explicit_fee"))
    ELSE Made(seen,
              DetailsErred(seen.m_is_liquid, acc,
                           JsonSet(update_tx_info(ia.tx,
                                       [transaction |-> ia.tx, transaction_inputs |-> ia.inputs,
                                        transaction_outputs |-> oj.outputs,
                                        fee |-> IF seen.m_is_liquid THEN acc.explicit_fee
                                                ELSE acc.sum,
                                        network_fee |-> 0]),
                                   "txhash", get_txid(ia.tx))))

\* Lines 259-285
DetailsOutputs(seen, session, ia, oj) ==
    Logged(IF oj.error # NoError THEN Failed(seen, oj.error)
           ELSE DetailsSummed(seen, ia, oj,
                    outputs_sum(seen.m_is_liquid, session.policy_asset, oj.outputs,
                                inputs_sum(seen.m_is_liquid, session.policy_asset, ia.inputs,
                                           [sum |-> 0, explicit_fee |-> 0, error |-> "",
                                            use_error |-> FALSE], 1), 1)),
           ia.calls \o oj.calls)

\* Lines 257-258: the structure may have gained input UTXOs even when the
\* call throws.
DetailsWithInputs(seen, session, ia) ==
    IF ia.error # NoError THEN Logged(Failed(seen, ia.error), ia.calls)
    ELSE DetailsOutputs(seen, session, ia, outputs_to_json(seen, session, ia.wallet_assets))

WithStructure(obj, ia) == [obj EXCEPT !.m_psbt = ia.m_psbt]

DetailsTx(obj, session, ia) == DetailsWithInputs(WithStructure(obj, ia), session, ia)

\* Lines 251-308.
get_details(obj, session, details) ==
    DetailsTx(obj, session, inputs_to_json(obj, session, extract(obj), details.utxos))

\* is_wallet_utxo
is_wallet_utxo(utxo) == ~IsEmptyJson(utxo) /\ j_str_or_empty(utxo, "address_type") # ""

\* Lines 527-530
Partial(r) ==
    IF r.error # NoError THEN r
    ELSE LET inputs == r.value["transaction_inputs"]
             num_wallet_inputs == Cardinality({ i \in 1..Len(inputs) : is_wallet_utxo(inputs[i]) })
         IN  Logged(Made(r.psbt, JsonSet(r.value, "is_partial",
                                         num_wallet_inputs # Len(inputs))), r.calls)

\* Lines 524-531.
to_json(obj, session, utxos) == Partial(get_details(obj, session, [utxos |-> utxos]))

\* ---------------------------------------------------------- Psbt::from_json

ByteOf(hex) == CHOOSE n \in 0..3 : HexOf(n) = hex

j_bytesref(json, key) == [i \in 1..Len(json[key]) |-> ByteOf(json[key][i])]

j_rbytesref(json, key) ==
    [i \in 1..Len(json[key]) |-> ByteOf(json[key][Len(json[key]) + 1 - i])]

\* nlohmann::json::at and the j_*ref accessors throw for a missing element.
JsonError(key) == [kind |-> "json_error", msg |-> key]

\* The first of keys that json lacks, in order.
RECURSIVE FirstMissing(_, _, _)
FirstMissing(json, keys, k) ==
    IF k > Len(keys) THEN ""
    ELSE IF ~Has(json, keys[k]) THEN keys[k]
    ELSE FirstMissing(json, keys, k + 1)

\* witness_script(..., WALLY_SCRIPT_HASH160 / WALLY_SCRIPT_SHA256)
witness_script(bytes) == <<0>> \o bytes

\* Lines 107-131: the keys that serve the utxo, once the signer has given
\* its master xpub.
add_keypaths(session, keypaths) ==
    keypaths \cup (IF session.is_electrum THEN {"user"} ELSE {"green", "user"})

\* Lines 133-150.
add_input_scripts(psbt_fields, utxo) ==
    LET addr_type == utxo["address_type"]
    IN  IF addr_type = "p2sh_p2wpkh"
        THEN set_field(psbt_fields, in_redeem_script, witness_script(<<3>>))
        ELSE IF addr_type \in {"csv", "p2wsh"}
        THEN LET prevout_script == j_bytesref(utxo, "prevout_script")
             IN  set_field(set_field(psbt_fields, in_witness_script, prevout_script),
                           in_redeem_script, witness_script(prevout_script))
        ELSE psbt_fields

\* Lines 555-585: input i (from 1) of the details.
FromJsonInput(is_liquid, session, nonce, p, inputs, i) ==
    IF i > Len(inputs)
    THEN [error |-> JsonError("transaction_inputs"), psbt |-> p, calls |-> <<>>]
    ELSE
    LET input == inputs[i]
        wallet == is_wallet_utxo(input)
        keys == IF wallet THEN <<Call("keys_from_utxo", "input", i - 1)>> ELSE <<>>
        fetch == <<Call("get_raw_transaction_details", "input", i - 1)>>
        utxo_tx == get_raw_transaction_details(session, input["txhash"])
        missing == FirstMissing(input,
                      (IF wallet /\ input["address_type"] \in {"csv", "p2wsh"}
                       THEN <<"prevout_script">> ELSE <<>>)
                      \o (IF is_liquid THEN <<"asset_id", "satoshi">> ELSE <<>>)
                      \o (IF ~p.inputs[i].utxo.present THEN <<"pt_idx", "txhash">> ELSE <<>>)
                      \o (IF is_liquid THEN <<"assetblinder", "amountblinder">> ELSE <<>>), 1)
        keyed == IF wallet
                 THEN [p.inputs[i] EXCEPT !.keypaths = add_keypaths(session, @),
                                          !.psbt_fields = add_input_scripts(@, input)]
                 ELSE p.inputs[i]
        valued == IF is_liquid
                  THEN [keyed EXCEPT !.pset_fields = replace_field(@, in_explicit_asset,
                                                                   j_rbytesref(input, "asset_id")),
                                     !.has_amount = TRUE,
                                     !.amount = j_amountref(input)]
                  ELSE keyed
        fetched == IF ~valued.utxo.present
                   THEN [valued EXCEPT !.utxo = [present |-> TRUE,
                                                 satoshi |-> utxo_tx.satoshi]]
                   ELSE valued
        proved == IF is_liquid
                  THEN [fetched EXCEPT !.pset_fields =
                            replace_field(replace_field(@, in_value_proof, <<nonce>>),
                                          in_asset_proof, <<nonce>>)]
                  ELSE fetched
    IN  IF wallet /\ ~session.has_master_xpub
        THEN [error |-> AssertionError("m_master_key"), psbt |-> p, calls |-> keys]
        ELSE IF missing \in {"prevout_script", "asset_id", "satoshi", "pt_idx", "txhash"}
        THEN [error |-> JsonError(missing), psbt |-> p, calls |-> keys]
        ELSE IF p.inputs[i].utxo.present
        THEN IF missing # "" THEN [error |-> JsonError(missing), psbt |-> p, calls |-> keys]
             ELSE [error |-> NoError, psbt |-> [p EXCEPT !.inputs[i] = proved], calls |-> keys]
        ELSE IF utxo_tx.error # NoError
        THEN [error |-> utxo_tx.error, psbt |-> p, calls |-> keys \o fetch]
        ELSE IF missing # ""
        THEN [error |-> JsonError(missing), psbt |-> p, calls |-> keys \o fetch]
        ELSE [error |-> NoError, psbt |-> [p EXCEPT !.inputs[i] = proved],
              calls |-> keys \o fetch]

OwnBlinderIndexFirst(i) == [present |-> TRUE, value |-> 0]

\* Lines 609-610: the blinder index of output i (from 1) is its own index.
OwnBlinderIndex(i) == [present |-> TRUE, value |-> i - 1]

\* Lines 590-640: output i (from 1) of the details.
FromJsonOutput(is_liquid, session, nonce, p, outputs, i) ==
    IF i > Len(outputs)
    THEN [error |-> JsonError("transaction_outputs"), psbt |-> p, calls |-> <<>>]
    ELSE
    LET output == outputs[i]
        wallet == is_wallet_utxo(output)
        keys == IF wallet THEN <<Call("keys_from_utxo", "output", i - 1)>> ELSE <<>>
        fee == j_str_is_empty(output, "scriptpubkey")
        missing == FirstMissing(output,
                      IF ~is_liquid THEN <<>>
                      ELSE IF fee THEN <<"asset_id", "satoshi">>
                      ELSE <<"asset_id", "satoshi", "blinding_key", "amountblinder",
                             "assetblinder">>, 1)
        keyed == IF wallet
                 THEN [p.outputs[i] EXCEPT !.keypaths = add_keypaths(session, @)]
                 ELSE p.outputs[i]
        valued == [keyed EXCEPT !.pset_fields = replace_field(@, out_asset,
                                                              j_rbytesref(output, "asset_id")),
                                !.has_amount = TRUE,
                                !.amount = j_amountref(output)]
        blinded == [valued EXCEPT !.blinder_index = OwnBlinderIndex(i),
                                  !.pset_fields =
                                      replace_field(
                                        replace_field(
                                          replace_field(@, out_blinding_pubkey,
                                                        j_bytesref(output, "blinding_key")),
                                          out_blind_asset_proof, <<nonce>>),
                                        out_blind_value_proof, <<nonce>>)]
    IN  IF wallet /\ ~session.has_master_xpub
        THEN [error |-> AssertionError("m_master_key"), psbt |-> p, calls |-> keys]
        ELSE IF missing # "" THEN [error |-> JsonError(missing), psbt |-> p, calls |-> keys]
        ELSE IF ~is_liquid
        THEN [error |-> NoError, psbt |-> [p EXCEPT !.outputs[i] = keyed], calls |-> keys]
        ELSE IF fee
        THEN [error |-> NoError, psbt |-> [p EXCEPT !.outputs[i] = valued], calls |-> keys]
        ELSE IF pset_field(keyed, out_asset_commitment) = NoField
        THEN [error |-> AssertionError("!asset_commitment.empty()"), psbt |-> p, calls |-> keys]
        ELSE IF pset_field(keyed, out_value_commitment) = NoField
        THEN [error |-> AssertionError("!value_commitment.empty()"), psbt |-> p, calls |-> keys]
        ELSE [error |-> NoError, psbt |-> [p EXCEPT !.outputs[i] = blinded], calls |-> keys]

AfterReversed(r, step) == [step EXCEPT !.calls = @ \o r.calls]

\* Lines 553 and 588: the loops take the inputs, then the outputs, by rising
\* index: the step's calls follow those made up to r.
After(r, step) == [step EXCEPT !.calls = r.calls \o @]

RECURSIVE from_json_inputs(_, _, _, _, _, _, _)
from_json_inputs(is_liquid, session, nonce, r, inputs, n, i) ==
    IF i > n \/ r.error # NoError THEN r
    ELSE from_json_inputs(is_liquid, session, nonce,
                          After(r, FromJsonInput(is_liquid, session, nonce, r.psbt, inputs, i)),
                          inputs, n, i + 1)

RECURSIVE from_json_outputs(_, _, _, _, _, _, _)
from_json_outputs(is_liquid, session, nonce, r, outputs, n, i) ==
    IF i > n \/ r.error # NoError THEN r
    ELSE from_json_outputs(is_liquid, session, nonce,
                           After(r, FromJsonOutput(is_liquid, session, nonce, r.psbt, outputs, i)),
                           outputs, n, i + 1)

UnwoundKept(obj, r) == Logged(Failed(obj, r.error), r.calls)

\* Lines 176-180: from_json threw inside the constructor, which destroys the
\* members built so far; the caller gets the exception and no object.
Unwound(obj, r) == Logged(Failed(NoPsbt, r.error), r.calls)

\* Line 539
OriginalVersionOf(tx) == IF tx.version < 2 THEN 0 ELSE 2

\* Lines 176-180 and 533-642.  A constructor that throws leaves no object.
PsbtFromDetails(session, details, is_liquid, nonce) ==
    IF j_str_or_empty(details, "error") # ""
    THEN Failed(NoPsbt, AssertionError("j_str_is_empty(details, error)"))
    ELSE
    LET tx == details["transaction"]
        m_original_version == OriginalVersionOf(tx)
        made == wally_psbt_from_tx(tx, m_original_version, is_liquid)
        up == IF m_original_version = 0 THEN wally_psbt_set_version(made.psbt, 2) ELSE made
        ins == from_json_inputs(is_liquid, session, nonce,
                                [error |-> NoError, psbt |-> up.psbt, calls |-> <<>>],
                                details["transaction_inputs"], Len(tx.inputs), 1)
        outs == from_json_outputs(is_liquid, session, nonce, ins,
                                  details["transaction_outputs"], Len(tx.outputs), 1)
    IN  IF ~made.ok THEN Failed(NoPsbt, WallyError("wally_psbt_from_tx"))
        ELSE IF ~up.ok THEN Failed(NoPsbt, WallyError("wally_psbt_set_version"))
        ELSE IF outs.error # NoError
        THEN Unwound([m_is_liquid |-> is_liquid, m_original_version |-> m_original_version,
                      m_psbt |-> outs.psbt], outs)
        ELSE Logged(Made([m_is_liquid |-> is_liquid, m_original_version |-> m_original_version,
                          m_psbt |-> outs.psbt], <<>>), outs.calls)

\* ------------------------------------------- the PSBTs and wallets at hand

PolicyAssetBytes == <<1, 0>>

OtherAssetBytes == <<2, 0>>

\* net_params.get_policy_asset(): hex, reversed.
PolicyAsset == b2h_rev(PolicyAssetBytes)

WalletScript == <<1>>

ExternalScript == <<2>>

\* The sessions a Psbt is enriched under: multisig or singlesig, the wallet's
\* outputs unblinding or not.
Sessions ==
    { [is_electrum |-> e, policy_asset |-> PolicyAsset, wallet_scripts |-> {WalletScript},
       internal_chain |-> FALSE, unblind_fails |-> u, prevout_satoshi |-> 5,
       fetch_fails |-> f,
       has_master_xpub |-> x] : e \in BOOLEAN, u \in BOOLEAN, x \in {TRUE}, f \in {{}, {"t1"}, {"t2"}} } \
    { s \in [is_electrum : BOOLEAN, policy_asset : {PolicyAsset},
             wallet_scripts : {{WalletScript}}, internal_chain : {FALSE},
             unblind_fails : BOOLEAN, prevout_satoshi : {5}, has_master_xpub : {TRUE},
             fetch_fails : {{}, {"t1"}, {"t2"}}] :
          \/ s.is_electrum /\ s.unblind_fails
          \/ (s.is_electrum \/ s.unblind_fails) /\ s.fetch_fails # {} }

\* Bitcoin transactions: one input or two, version 1 or 2.
TxIn(txhash) == [txhash |-> txhash, index |-> 0, sequence |-> 3, script |-> <<>>, witness |-> <<>>]

BtcTxs ==
    { [present |-> TRUE, version |-> v, locktime |-> 7, inputs |-> ins,
       outputs |-> << [satoshi |-> 3, script |-> ExternalScript, fields |-> <<>>],
                      [satoshi |-> 1, script |-> WalletScript, fields |-> <<>>] >>] :
        v \in {1, 2}, ins \in { <<TxIn("t1")>>, <<TxIn("t1"), TxIn("t2")>> } }

\* PSET inputs: the wallet's own (t1), and another party's (t2) with or
\* without its explicit value, asset and proofs.
PsetIn(txhash, present, has_amount, amount, fields) ==
    [txhash |-> txhash, index |-> 0, sequence |-> 3,
     utxo |-> [present |-> present, satoshi |-> 0],
     has_amount |-> has_amount, amount |-> amount, pset_fields |-> fields,
     psbt_fields |-> <<>>, keypaths |-> {}, final_witness |-> <<>>, final_scriptsig |-> <<>>]

ExplicitFields(asset) ==
    (in_explicit_asset :> asset) @@ (in_value_proof :> <<3>>) @@ (in_asset_proof :> <<3>>)

Without1(f, k) == [x \in DOMAIN f \ {k} |-> f[x]]

WalletPsetIn == PsetIn("t1", TRUE, FALSE, 0, <<>>)

OtherPsetIns ==
    { PsetIn("t2", FALSE, FALSE, 0, <<>>),
      PsetIn("t2", FALSE, TRUE, 2, ExplicitFields(PolicyAssetBytes)),
      PsetIn("t2", TRUE, TRUE, 2, ExplicitFields(OtherAssetBytes)),
      PsetIn("t2", TRUE, TRUE, 2, Without1(ExplicitFields(PolicyAssetBytes), in_explicit_asset)),
      PsetIn("t2", TRUE, TRUE, 2, Without1(ExplicitFields(PolicyAssetBytes), in_value_proof)),
      PsetIn("t2", TRUE, TRUE, 2, Without1(ExplicitFields(PolicyAssetBytes), in_asset_proof)) }

\* PSET outputs: the fee, and fully blinded payments to the wallet or away.
PsetOut(amount, script, fields) ==
    [has_amount |-> TRUE, amount |-> amount, script |-> script, pset_fields |-> fields,
     keypaths |-> {}, blinder_index |-> NoBlinderIndex]

FeeOut(amount) == PsetOut(amount, <<>>, (out_asset :> PolicyAssetBytes))

FullFields(asset) ==
    [k \in {out_value_commitment, out_asset, out_asset_commitment, out_value_rangeproof,
            out_asset_surjection_proof, out_blinding_pubkey, out_ecdh_pubkey,
            out_blind_value_proof, out_blind_asset_proof} |->
        IF k = out_asset THEN asset ELSE <<1>>]

PsetOutputs ==
    { << PsetOut(3, ExternalScript, FullFields(PolicyAssetBytes)),
         PsetOut(1, WalletScript, FullFields(PolicyAssetBytes)), FeeOut(1) >>,
      << PsetOut(5, ExternalScript, FullFields(PolicyAssetBytes)),
         PsetOut(1, WalletScript, FullFields(PolicyAssetBytes)), FeeOut(1) >>,
      << PsetOut(4, WalletScript, FullFields(PolicyAssetBytes)), FeeOut(1) >>,
      << PsetOut(2, WalletScript, FullFields(PolicyAssetBytes)),
         PsetOut(2, WalletScript, FullFields(PolicyAssetBytes)), FeeOut(1) >>,
      << PsetOut(1, ExternalScript, FullFields(PolicyAssetBytes)), FeeOut(1) >>,
      << PsetOut(3, ExternalScript, Without1(FullFields(PolicyAssetBytes), out_ecdh_pubkey)),
         FeeOut(2) >> }

Pset(ins, outs) ==
    [magic |-> "pset", version |-> 2, tx |-> NoTx, tx_version |-> 2, fallback_locktime |-> 0,
     inputs |-> ins, outputs |-> outs]

\* The structures peers send: Bitcoin PSBTs of version 0 and 2, and PSETs.
SourcePsbts ==
    { wally_psbt_from_tx(tx, v, FALSE).psbt : tx \in BtcTxs, v \in {0, 2} }
    \cup { Pset(<<WalletPsetIn>>, outs) : outs \in PsetOutputs }
    \cup { Pset(ins, outs) :
             ins \in { <<x>> : x \in OtherPsetIns } \cup { <<WalletPsetIn, x>> : x \in OtherPsetIns },
             outs \in { o \in PsetOutputs : Len(o) = 3 /\ o[1].amount = 3 } }

Base64Inputs == { wally_psbt_to_base64(p, FALSE) : p \in SourcePsbts } \cup {Garbage}

\* The wallet's utxo for outpoint t1:0, as callers pass it to to_details:
\* flat or keyed by asset, with or without an error and skip_signing.
WalletUtxo(satoshi) ==
    [txhash |-> "t1", pt_idx |-> 0, satoshi |-> satoshi, asset_id |-> PolicyAsset,
     address_type |-> "p2wsh", prevout_script |-> b2h(WalletScript), subaccount |-> 0,
     pointer |-> 1, user_status |-> 0,
     assetblinder |-> b2h(<<3>>), amountblinder |-> b2h(<<3>>)]

UtxosInputs ==
    { [is_array |-> FALSE, arrays |-> << <<u>> >>] :
        u \in { WalletUtxo(5), WalletUtxo(7), WalletUtxo(4),
                JsonSet(WalletUtxo(5), "error", "id_invalid_utxo"),
                JsonSet(JsonSet(WalletUtxo(5), "error", "id_invalid_utxo"),
                        "skip_signing", TRUE) } }
    \cup { [is_array |-> TRUE, arrays |-> << <<WalletUtxo(5)>> >>],
           [is_array |-> FALSE, arrays |-> <<>>] }

\* Details handed to from_details: a Bitcoin payment (transaction version 1
\* or 2), a Liquid payment, and ones that cannot be built.
LiquidTx(version, fields) ==
    [present |-> TRUE, version |-> version, locktime |-> 0, inputs |-> <<TxIn("t1")>>,
     outputs |-> << [satoshi |-> 4, script |-> ExternalScript, fields |-> fields],
                    [satoshi |-> 1, script |-> <<>>, fields |-> <<>>] >>]

TxCommitments == (out_value_commitment :> <<1>>) @@ (out_asset_commitment :> <<1>>)

\* A Liquid payment with change to the wallet, and the fee.
LiquidChangeTx ==
    [present |-> TRUE, version |-> 2, locktime |-> 0, inputs |-> <<TxIn("t1")>>,
     outputs |-> << [satoshi |-> 3, script |-> ExternalScript, fields |-> TxCommitments],
                    [satoshi |-> 1, script |-> WalletScript, fields |-> TxCommitments],
                    [satoshi |-> 1, script |-> <<>>, fields |-> <<>>] >>]

DetailsOutput(satoshi, script) ==
    [satoshi |-> satoshi, scriptpubkey |-> b2h(script), asset_id |-> PolicyAsset,
     blinding_key |-> b2h(<<2>>), assetblinder |-> b2h(<<3>>), amountblinder |-> b2h(<<3>>)]

DetailsInputs ==
    { [transaction |-> tx, transaction_inputs |-> [i \in 1..Len(tx.inputs) |-> WalletUtxo(5)],
       transaction_outputs |-> << DetailsOutput(3, ExternalScript),
                                  DetailsOutput(1, WalletScript) >>] : tx \in BtcTxs }
    \cup { [transaction |-> LiquidTx(v, f), transaction_inputs |-> <<WalletUtxo(5)>>,
            transaction_outputs |-> << DetailsOutput(4, ExternalScript),
                                       Without1(DetailsOutput(1, <<>>), "blinding_key") >>] :
             v \in {1, 2}, f \in {TxCommitments, Without1(TxCommitments, out_value_commitment)} }
    \cup { [transaction |-> LiquidChangeTx, transaction_inputs |-> <<WalletUtxo(5)>>,
            transaction_outputs |-> << DetailsOutput(3, ExternalScript),
                                       JsonSet(DetailsOutput(1, WalletScript),
                                               "address_type", "p2wsh"),
                                       Without1(DetailsOutput(1, <<>>), "blinding_key") >>] }
    \cup { [transaction |-> LiquidTx(2, TxCommitments), error |-> "id_insufficient_funds",
            transaction_inputs |-> <<>>, transaction_outputs |-> <<>>] }

\* ------------------------------------------------------- calls on a Psbt

\* The signer is not involved.
NoSigner == UNCHANGED <<cvars, m_master_key, svars, peer, lvars>>

Exists == psbt # NoPsbt

Result(op, args, r) ==
    [op |-> op, args |-> args, error |-> r.error, value |-> r.value, calls |-> r.calls]

\* The call leaves its object as r.psbt and its outcome in presult.
Called(op, args, r) ==
    /\ psbt' = r.psbt
    /\ presult' = Result(op, args, r)
    /\ UNCHANGED rhs
    /\ NoSigner

\* Psbt::Psbt(psbt_base64, is_liquid)
Parse(psbt_base64, is_liquid) ==
    /\ ~Exists
    /\ Called("parse", [psbt_base64 |-> psbt_base64, is_liquid |-> is_liquid],
              PsbtFromBase64(psbt_base64, is_liquid))

\* Psbt::Psbt(session, details, is_liquid)
FromDetails(session, details, is_liquid, nonce) ==
    /\ ~Exists
    /\ Called("from_details", [details |-> details, is_liquid |-> is_liquid],
              PsbtFromDetails(session, details, is_liquid, nonce))

\* Psbt::swap
Swap ==
    /\ Exists
    /\ psbt' = rhs
    /\ rhs' = psbt
    /\ presult' = Result("swap", <<>>, Made(rhs, <<>>))
    /\ NoSigner

\* Psbt::to_base64
ToBase64(include_redundant) ==
    /\ Exists
    /\ Called("to_base64", [include_redundant |-> include_redundant],
              to_base64(psbt, include_redundant))

\* Psbt::extract
Extract ==
    /\ Exists
    /\ Called("extract", <<>>, Made(psbt, extract(psbt)))

\* Psbt::to_json
ToDetails(session, utxos) ==
    /\ Exists
    /\ Called("to_details", [session |-> session, utxos |-> utxos],
              to_json(psbt, session, utxos))

\* The transaction a signer hands back: that of the Psbt with its inputs signed.
Signed(tx) ==
    [tx EXCEPT !.inputs = [i \in 1..Len(tx.inputs) |->
                              [tx.inputs[i] EXCEPT !.witness = <<"sig">>, !.script = <<"sig">>]]]

\* Psbt::set_input_finalization_data
SetInputFinalizationData(index) ==
    /\ Exists
    /\ Called("set_input_finalization_data", [index |-> index],
              set_input_finalization_data(psbt, index, Signed(extract(psbt))))

\* The other Psbt: one parsed from a PSET.
RhsInputs ==
    { PsbtFromBase64(wally_psbt_to_base64(p, FALSE), TRUE).psbt :
        p \in { Pset(<<WalletPsetIn>>, outs) : outs \in { o \in PsetOutputs : o[1].amount = 4 } } }

\* A wallet's session together with the utxos its caller passes: every kind of
\* utxos under the multisig session, the plain one under the others.
Wallets ==
    { [session |-> s, utxos |-> u] : s \in Sessions, u \in UtxosInputs }

PlainWallets ==
    { w \in Wallets : \/ /\ ~w.session.is_electrum /\ ~w.session.unblind_fails
                         /\ w.session.fetch_fails = {}
                      \/ w.utxos = [is_array |-> FALSE, arrays |-> << <<WalletUtxo(5)>> >>] }

InitPsbt ==
    /\ hw_device = EmptyJson
    /\ credentials = [mnemonic |-> HexSeedX]
    /\ m_credentials = get_credentials_json(credentials).json
    /\ m_device = get_device_json(hw_device, m_credentials).json
    /\ m_is_liquid = FALSE
    /\ ctor_pc = "done"
    /\ ctor_error = NoError
    /\ m_master_key = MasterKeyOf(m_credentials)
    /\ m_master_blinding_key = MasterBlindingKeyOf(m_is_liquid, m_credentials)
    /\ InitCalls
    /\ peer = NoPeer
    /\ psbt = NoPsbt
    /\ rhs \in RhsInputs
    /\ presult = NoResult

NextPsbt ==
    \/ \E psbt_base64 \in Base64Inputs, is_liquid \in BOOLEAN : Parse(psbt_base64, is_liquid)
    \/ \E session \in Sessions, details \in DetailsInputs, is_liquid \in BOOLEAN, nonce \in {0, 1} :
          FromDetails(session, details, is_liquid, nonce)
    \/ Swap
    \/ \E include_redundant \in BOOLEAN : ToBase64(include_redundant)
    \/ Extract
    \/ \E w \in PlainWallets : ToDetails(w.session, w.utxos)
    \/ \E index \in 0..1 : SetInputFinalizationData(index)

SpecPsbt == InitPsbt /\ [][NextPsbt]_vars

\* --------------------------------------------------- claims about the Psbt

\* The container a parse call decoded.
Decoded(args) == wally_psbt_from_base64(args.psbt_base64)

\* C14: parse(base64, is_liquid) fails with the user error "PSBT/PSET
\* mismatch" whenever the decoded container's Elements flag differs from
\* is_liquid, and then leaves no Psbt; when it succeeds, the Psbt's is_liquid
\* equals the container's Elements flag.
C14_ParseMismatch ==
    [][presult'.op = "parse" =>
         LET a == presult'.args
             d == Decoded(a)
         IN  /\ (d.ok /\ wally_psbt_is_elements(d.psbt) # a.is_liquid)
                    => (presult'.error = UserError("PSBT/PSET mismatch") /\ psbt' = NoPsbt)
             /\ presult'.error = NoError
                    => (/\ psbt' # NoPsbt
                        /\ d.ok
                        /\ psbt'.m_is_liquid = wally_psbt_is_elements(d.psbt))]_vars

\* A PSET was parsed as Bitcoin, or a PSBT as Liquid, and refused.
C14_Witness ==
    /\ presult.op = "parse"
    /\ presult.error = UserError("PSBT/PSET mismatch")
    /\ Decoded(presult.args).ok
    /\ psbt = NoPsbt

\* C15: version round trip.  to_base64 leaves the Psbt it is called on
\* unchanged; what it returns decodes to a structure of the original
\* version, and parsing it again gives the same Psbt with the same original
\* version; called on a Psbt just parsed from a version v PSBT it succeeds
\* with a version v PSBT.
C15_VersionRoundTrip ==
    [][presult'.op = "to_base64" =>
         /\ psbt' = psbt
         /\ presult'.error = NoError =>
                LET again == [psbt_base64 |-> presult'.value, is_liquid |-> psbt.m_is_liquid]
                IN  /\ Decoded(again).ok
                    /\ Decoded(again).psbt.version = psbt.m_original_version
                    /\ PsbtFromBase64(again.psbt_base64, again.is_liquid) = Made(psbt, <<>>)
         /\ (presult.op = "parse" /\ presult.error = NoError) =>
                /\ presult'.error = NoError
                /\ psbt.m_original_version = Decoded(presult.args).psbt.version
                /\ Decoded([psbt_base64 |-> presult'.value]).psbt.version
                       = Decoded(presult.args).psbt.version]_vars

\* A version 0 PSBT was parsed and written back as version 0.
C15_Witness ==
    /\ presult.op = "to_base64"
    /\ presult.error = NoError
    /\ psbt.m_original_version = 0
    /\ psbt.m_psbt.version = 2
    /\ Decoded([psbt_base64 |-> presult.value]).psbt.version = 0

WellFormed(obj) ==
    /\ obj.m_psbt.version = 2
    /\ obj.m_original_version \in {0, 2}
    /\ obj.m_is_liquid = wally_psbt_is_elements(obj.m_psbt)

\* C16: every Psbt, made by parse or from_details and after any calls of
\* to_base64, extract, to_details, set_input_finalization_data and swap,
\* holds a version 2 structure, an original version of 0 or 2, and an
\* is_liquid flag that matches the PSET magic of its structure.
C16_PsbtInvariant ==
    /\ psbt # NoPsbt => WellFormed(psbt)
    /\ rhs # NoPsbt => WellFormed(rhs)

\* A Psbt read from a version 0 PSBT, swapped with a PSET.
C16_Witness ==
    /\ presult.op = "swap"
    /\ rhs # NoPsbt
    /\ rhs.m_original_version = 0
    /\ ~rhs.m_is_liquid
    /\ psbt.m_is_liquid

\* The inputs of a to_details result.
InputsOf(value) == value["transaction_inputs"]

Erroring(input) == j_str_or_empty(input, "error") # ""

Skipped(input) == j_bool_or_false(input, "skip_signing")

\* Input i of the structure is not one of the utxos the caller passed.
NonWallet(obj, utxos, i) ==
    ~find_wallet_utxo(utxos, obj.m_psbt.inputs[i].txhash, obj.m_psbt.inputs[i].index, 1).found

\* C17: the result of to_details carries a top-level error if and only if
\* some input has a non-empty error and is not skip_signing; a non-wallet
\* PSET input without has_amount comes back with the error "failed to
\* unblind utxo" and skip_signing true, and alone raises no top-level error.
C17_ErrorElevation ==
    [][(presult'.op = "to_details" /\ presult'.error = NoError) =>
         LET inputs == InputsOf(presult'.value)
         IN  /\ Has(presult'.value, "error")
                    <=> \E i \in 1..Len(inputs) : Erroring(inputs[i]) /\ ~Skipped(inputs[i])
             /\ Len(inputs) = Len(psbt.m_psbt.inputs)
             /\ \A i \in 1..Len(inputs) :
                    (/\ psbt.m_is_liquid
                     /\ NonWallet(psbt, presult'.args.utxos, i)
                     /\ ~psbt.m_psbt.inputs[i].has_amount)
                    => (/\ j_str_or_empty(inputs[i], "error") = "failed to unblind utxo"
                        /\ Skipped(inputs[i]))]_vars

\* A PSET whose only erroring input is another party's, without has_amount:
\* the input is marked and the result has no top-level error.
C17_Witness ==
    /\ presult.op = "to_details"
    /\ presult.error = NoError
    /\ ~Has(presult.value, "error")
    /\ \E i \in 1..Len(InputsOf(presult.value)) :
           /\ j_str_or_empty(InputsOf(presult.value)[i], "error") = "failed to unblind utxo"
           /\ Skipped(InputsOf(presult.value)[i])
           /\ ~psbt.m_psbt.inputs[i].has_amount

ExplicitInputFields == {in_explicit_asset, in_value_proof, in_asset_proof}

\* Input i is another party's, has its explicit amount, and lacks one of
\* the explicit asset, value proof and asset proof.
LacksExplicitField(obj, utxos, i) ==
    /\ NonWallet(obj, utxos, i)
    /\ obj.m_psbt.inputs[i].has_amount
    /\ ~(ExplicitInputFields \subseteq DOMAIN obj.m_psbt.inputs[i].pset_fields)

LacksAmount(obj, utxos, i) ==
    /\ NonWallet(obj, utxos, i)
    /\ ~obj.m_psbt.inputs[i].has_amount

FieldNotFound ==
    { UserError(NotFound(key)) : key \in {"asset_id", "value_blind_proof", "asset_blind_proof"} }

\* C18 as stated: on liquid, a non-wallet input that lacks has_amount or any
\* of the fields 0x13, 0x12 and 0x14 is marked "failed to unblind utxo", and
\* the inputs do not make the call fail.
C18_Original ==
    [][(presult'.op = "to_details" /\ psbt.m_is_liquid) =>
         \A i \in 1..Len(psbt.m_psbt.inputs) :
             (LacksAmount(psbt, presult'.args.utxos, i)
              \/ LacksExplicitField(psbt, presult'.args.utxos, i))
             => /\ presult'.error \notin FieldNotFound
                /\ presult'.error = NoError =>
                       j_str_or_empty(InputsOf(presult'.value)[i], "error")
                           = "failed to unblind utxo"]_vars

\* C18: on liquid, a non-wallet input is marked "failed to unblind utxo"
\* exactly when it lacks has_amount, and the mark stays on that input; a
\* non-wallet input that has its amount but lacks one of the fields 0x13,
\* 0x12 and 0x14 makes the whole call fail with the user error "<key> not
\* found".
C18_MissingInputData ==
    [][(presult'.op = "to_details" /\ psbt.m_is_liquid) =>
         LET utxos == presult'.args.utxos
             n == Len(psbt.m_psbt.inputs)
         IN  /\ (\E i \in 1..n : LacksExplicitField(psbt, utxos, i))
                    => presult'.error \in FieldNotFound
             /\ presult'.error = NoError =>
                    \A i \in 1..n :
                        NonWallet(psbt, utxos, i) =>
                            ((j_str_or_empty(InputsOf(presult'.value)[i], "error")
                                  = "failed to unblind utxo")
                             <=> LacksAmount(psbt, utxos, i))]_vars

\* Another party's input had its amount but not its asset proof, and the
\* call failed.
C18_Witness ==
    /\ presult.op = "to_details"
    /\ psbt.m_is_liquid
    /\ presult.error = UserError("asset_blind_proof not found")
    /\ \E i \in 1..Len(psbt.m_psbt.inputs) : LacksExplicitField(psbt, presult.args.utxos, i)

\* The sum of the amounts of the entries that pass the test.
RECURSIVE SumWhere(_, _, _)
SumWhere(entries, Test(_), i) ==
    IF i > Len(entries) THEN 0
    ELSE amount_add(IF Test(entries[i]) THEN j_amountref(entries[i]) ELSE 0,
                    SumWhere(entries, Test, i + 1))

IsFee(txout) == j_str_is_empty(txout, "scriptpubkey")

\* The policy-asset totals of the inputs and outputs of a liquid
\* transaction: all error-free inputs, the wallet's inputs, all outputs with
\* a script, the wallet's outputs, and the fee outputs.
Totals(policy_asset, inputs, outputs) ==
    LET Policy(e) == j_assetref(TRUE, e) = policy_asset
        In(e) == ~Erroring(e) /\ Policy(e)
        WalletIn(e) == In(e) /\ is_wallet_utxo(e)
        Out(e) == Policy(e) /\ ~IsFee(e)
        WalletOut(e) == Out(e) /\ Has(e, "user_path")
        Fee(e) == Policy(e) /\ IsFee(e)
    IN  [inputs |-> SumWhere(inputs, In, 1), wallet_inputs |-> SumWhere(inputs, WalletIn, 1),
         outputs |-> SumWhere(outputs, Out, 1), wallet_outputs |-> SumWhere(outputs, WalletOut, 1),
         explicit_fee |-> SumWhere(outputs, Fee, 1)]

\* The computed sum equals the explicit fee.
FeeMatches(t) == amount_sub(t.inputs, t.outputs) = t.explicit_fee

\* What to_details makes of the inputs and outputs of obj, when neither
\* throws.  The amounts, assets and scripts it reads are not changed by the
\* call, so the object after the call gives what the call saw.
Entries(obj, session, utxos) ==
    LET ia == inputs_to_json(obj, session, extract(obj), utxos)
        oj == outputs_to_json(WithStructure(obj, ia), session, ia.wallet_assets)
    IN  [ok |-> ia.error = NoError /\ oj.error = NoError, inputs |-> ia.inputs,
         outputs |-> oj.outputs]

FeeAbort == AssertionError("sum == explicit_fee")

\* C19 as stated: on liquid, when the computed sum differs from the explicit
\* fee and every input that carries an error has skip_signing true, the call
\* aborts.
C19_Original ==
    LET e == Entries(psbt, presult.args.session, presult.args.utxos)
    IN  (/\ presult.op = "to_details" /\ psbt.m_is_liquid /\ e.ok
         /\ ~FeeMatches(Totals(presult.args.session.policy_asset, e.inputs, e.outputs))
         /\ \A i \in 1..Len(e.inputs) : Erroring(e.inputs[i]) => Skipped(e.inputs[i]))
        => presult.error = FeeAbort

\* C19: on liquid, to_details aborts on the fee assertion exactly when the
\* computed policy-asset sum differs from the explicit fee and no input
\* carries an error; an error on any input, skipped or not, excuses the
\* difference.
C19_FeeAssertion ==
    LET e == Entries(psbt, presult.args.session, presult.args.utxos)
    IN  (presult.op = "to_details" /\ psbt.m_is_liquid /\ e.ok) =>
            (presult.error = FeeAbort
             <=> /\ ~FeeMatches(Totals(presult.args.session.policy_asset, e.inputs, e.outputs))
                 /\ \A i \in 1..Len(e.inputs) : ~Erroring(e.inputs[i]))

\* The sums differ, the only input error is on a skipped input, and the call
\* returned.
C19_Witness ==
    /\ presult.op = "to_details"
    /\ psbt.m_is_liquid
    /\ presult.error = NoError
    /\ ~FeeMatches(Totals(presult.args.session.policy_asset, InputsOf(presult.value),
                          presult.value["transaction_outputs"]))
    /\ \E i \in 1..Len(InputsOf(presult.value)) : Erroring(InputsOf(presult.value)[i])
    /\ \A i \in 1..Len(InputsOf(presult.value)) :
           Erroring(InputsOf(presult.value)[i]) => Skipped(InputsOf(presult.value)[i])

\* The totals of a to_details result.
ResultTotals(result) ==
    Totals(result.args.session.policy_asset, InputsOf(result.value),
           result.value["transaction_outputs"])

NoInputError(result) ==
    \A i \in 1..Len(InputsOf(result.value)) : ~Erroring(InputsOf(result.value)[i])

Returned(result, obj) ==
    result.op = "to_details" /\ result.error = NoError /\ obj.m_is_liquid

\* C20 as stated: every result of to_details on liquid has an input with an
\* error, or the wallet's policy-asset inputs equal the wallet's policy-asset
\* outputs plus the explicit fee.
C20_Original ==
    Returned(presult, psbt) =>
        \/ ~NoInputError(presult)
        \/ ResultTotals(presult).wallet_inputs
               = amount_add(ResultTotals(presult).wallet_outputs,
                            ResultTotals(presult).explicit_fee)

\* C20: every result of to_details on liquid has an input with an error, or
\* its policy-asset inputs, the wallet's and others', less its policy-asset
\* outputs with a script, the wallet's and others', equal the explicit fee
\* (in unsigned 64-bit arithmetic).
C20_FeeInvariant ==
    Returned(presult, psbt) =>
        \/ ~NoInputError(presult)
        \/ FeeMatches(ResultTotals(presult))

\* A payment to another party with change: the inputs have no error and the
\* wallet's outputs are not all of the outputs.
C20_Witness ==
    /\ Returned(presult, psbt)
    /\ NoInputError(presult)
    /\ ResultTotals(presult).outputs # ResultTotals(presult).wallet_outputs
    /\ ResultTotals(presult).wallet_outputs # 0

OutputsOf(value) == value["transaction_outputs"]

\* The assets of the inputs that are the wallet's.
FundedAssets(is_liquid, value) ==
    { j_assetref(is_liquid, InputsOf(value)[i]) :
        i \in { k \in 1..Len(InputsOf(value)) : is_wallet_utxo(InputsOf(value)[k]) } }

\* An output the wallet's script data and paths were added to.
Enriched(txout) == Has(txout, "user_path")

\* An output paying to one of the session's scripts, enriched or not.
Owned(session, txout) ==
    \E script \in session.wallet_scripts : txout["scriptpubkey"] = b2h(script)

IsChange(txout) == j_bool_or_false(txout, "is_change")

\* The outputs of the asset among those passing the test.
OfAsset(is_liquid, outputs, asset, Test(_)) ==
    { i \in 1..Len(outputs) : Test(outputs[i]) /\ j_assetref(is_liquid, outputs[i]) = asset }

\* The heuristic over the wallet outputs W of an asset, E telling whether the
\* asset also goes to an output that is not the wallet's.
OneChange(outputs, W, E) ==
    W # {} =>
        LET first == CHOOSE i \in W : \A k \in W : i <= k
        IN  /\ IsChange(outputs[first]) = (E \/ Cardinality(W) >= 2)
            /\ \A k \in W \ {first} : ~IsChange(outputs[k])

MultisigResult ==
    /\ presult.op = "to_details"
    /\ presult.error = NoError
    /\ ~presult.args.session.is_electrum

\* C21 as stated: the heuristic runs over every output that pays to the
\* wallet.
C21_Original ==
    MultisigResult =>
        LET outputs == OutputsOf(presult.value)
            session == presult.args.session
            Mine(o) == Owned(session, o)
            Others(o) == ~Owned(session, o) /\ ~IsFee(o)
        IN  \A asset \in FundedAssets(psbt.m_is_liquid, presult.value) :
                OneChange(outputs, OfAsset(psbt.m_is_liquid, outputs, asset, Mine),
                          OfAsset(psbt.m_is_liquid, outputs, asset, Others) # {})

\* C21: change heuristic on multisig, over the wallet outputs that were
\* enriched (on liquid, those that unblinded).  For each asset the wallet
\* funded: if the asset also goes to a non-wallet output, or has two or more
\* such wallet outputs, the earliest of them has is_change true and no other
\* has; otherwise the single one has is_change false.  A wallet output that
\* failed to unblind takes no part and gets no is_change.
C21_ChangeHeuristic ==
    MultisigResult =>
        LET outputs == OutputsOf(presult.value)
            session == presult.args.session
            Others(o) == ~Owned(session, o) /\ ~IsFee(o)
        IN  /\ \A asset \in FundedAssets(psbt.m_is_liquid, presult.value) :
                   OneChange(outputs, OfAsset(psbt.m_is_liquid, outputs, asset, Enriched),
                             OfAsset(psbt.m_is_liquid, outputs, asset, Others) # {})
            /\ \A i \in 1..Len(outputs) : ~Enriched(outputs[i]) => ~Has(outputs[i], "is_change")

\* Two wallet outputs of a funded asset: the first is change, the second is
\* not.
C21_Witness ==
    /\ MultisigResult
    /\ \E i, k \in 1..Len(OutputsOf(presult.value)) :
           /\ i < k
           /\ Enriched(OutputsOf(presult.value)[i])
           /\ Enriched(OutputsOf(presult.value)[k])
           /\ IsChange(OutputsOf(presult.value)[i])
           /\ ~IsChange(OutputsOf(presult.value)[k])

\* How many times the call was asked to fetch the previous transaction of
\* input i (from 1).
Fetches(made, i) ==
    Cardinality({ k \in DOMAIN made :
                    made[k] = Call("get_raw_transaction_details", "input", i - 1) })

InputIndices(obj) == 1..Len(obj.m_psbt.inputs)

HasUtxo(obj, i) == obj.m_psbt.inputs[i].utxo.present

ToDetailsStep == Exists /\ presult'.op = "to_details"

\* C22: to_details fetches the previous transaction of an input exactly when
\* the Psbt holds no UTXO for it, once and without retrying; after a
\* successful to_details every input has a UTXO, and a UTXO that was there
\* is the one still there.
C22_UtxoEnsured ==
    [][ToDetailsStep =>
          \A i \in InputIndices(psbt) :
              /\ Fetches(presult'.calls, i) <= 1
              /\ Fetches(presult'.calls, i) = 1 => ~HasUtxo(psbt, i)
              /\ \A j \in InputIndices(psbt) :
                     i < j /\ ~HasUtxo(psbt, i) /\ Fetches(presult'.calls, i) = 0
                         => Fetches(presult'.calls, j) = 0
              /\ presult'.error = NoError =>
                     /\ ~HasUtxo(psbt, i) => Fetches(presult'.calls, i) = 1
                     /\ HasUtxo(psbt', i)
                     /\ HasUtxo(psbt, i) =>
                            psbt'.m_psbt.inputs[i].utxo = psbt.m_psbt.inputs[i].utxo]_vars

\* A to_details that succeeded on a Psbt of two inputs, having fetched the
\* previous transaction of the second and not of the first.
C22_Witness ==
    /\ Exists
    /\ presult.op = "to_details"
    /\ presult.error = NoError
    /\ Len(psbt.m_psbt.inputs) = 2
    /\ Fetches(presult.calls, 1) = 0
    /\ Fetches(presult.calls, 2) = 1
    /\ HasUtxo(psbt, 1) /\ HasUtxo(psbt, 2)

FromDetailsFailed == presult.op = "from_details" /\ presult.error # NoError

\* C23: a from_details that fails on an input or an output (a collaborator
\* throws, a details field is missing, a commitment is absent) hands the
\* failing step's error to the caller and leaves no Psbt; a from_details that
\* returns without error leaves one.  The details are passed by const
\* reference: an argument of the call, which no step assigns.
C23_NoPartialCommit ==
    presult.op = "from_details" => (presult.error # NoError <=> psbt = NoPsbt)

\* A from_details that enriched its inputs, asking the session for keys and
\* for the previous transaction, and then failed on an output.
C23_Witness ==
    /\ FromDetailsFailed
    /\ \E k \in DOMAIN presult.calls : presult.calls[k].call = "get_raw_transaction_details"
    /\ presult.error \in {AssertionError("!asset_commitment.empty()"),
                          AssertionError("!value_commitment.empty()")}
    /\ psbt = NoPsbt

\* The output of the details from_details was given for output i (from 1).
DetailsOutputOf(i) == presult.args.details["transaction_outputs"][i]

TxOutputOf(i) == presult.args.details["transaction"].outputs[i]

BuiltOutput(i) == psbt.m_psbt.outputs[i]

LiquidBuild == presult.op = "from_details" /\ presult.args.is_liquid

\* What from_details adds to an output that is not the fee.
BlindingAdded(txout) ==
    { k \in {out_blinding_pubkey, out_blind_asset_proof, out_blind_value_proof} :
        has_field(txout.pset_fields, k) }

\* C24: a from_details for Liquid that succeeds has given every output its
\* explicit asset and amount; the fee output (empty scriptpubkey) nothing
\* more; every other output its own index as blinder index, its blinding
\* public key, an asset surjection proof and a value rangeproof.  It fails
\* when such an output has no asset commitment or no value commitment.
C24_LiquidOutputs ==
    LiquidBuild =>
        /\ presult.error = NoError =>
               \A i \in 1..Len(psbt.m_psbt.outputs) :
                   /\ pset_field(BuiltOutput(i), out_asset)
                          = j_rbytesref(DetailsOutputOf(i), "asset_id")
                   /\ BuiltOutput(i).has_amount
                   /\ BuiltOutput(i).amount = j_amountref(DetailsOutputOf(i))
                   /\ IF j_str_is_empty(DetailsOutputOf(i), "scriptpubkey")
                      THEN /\ BuiltOutput(i).blinder_index = NoBlinderIndex
                           /\ BlindingAdded(BuiltOutput(i)) = {}
                      ELSE /\ BuiltOutput(i).blinder_index = [present |-> TRUE, value |-> i - 1]
                           /\ pset_field(BuiltOutput(i), out_blinding_pubkey)
                                  = j_bytesref(DetailsOutputOf(i), "blinding_key")
                           /\ BlindingAdded(BuiltOutput(i))
                                  = {out_blinding_pubkey, out_blind_asset_proof,
                                     out_blind_value_proof}
        /\ (\E i \in DOMAIN presult.args.details["transaction"].outputs
                      \cap DOMAIN presult.args.details["transaction_outputs"] :
                /\ ~j_str_is_empty(DetailsOutputOf(i), "scriptpubkey")
                /\ \/ ~has_field(TxOutputOf(i).fields, out_asset_commitment)
                   \/ ~has_field(TxOutputOf(i).fields, out_value_commitment))
              => presult.error # NoError

\* A Liquid build of a payment, its change and the fee.
C24_Witness ==
    /\ LiquidBuild
    /\ presult.error = NoError
    /\ Len(psbt.m_psbt.outputs) = 3
    /\ BuiltOutput(2).blinder_index = [present |-> TRUE, value |-> 1]
    /\ BuiltOutput(3).script = <<>>
    /\ BuiltOutput(3).blinder_index = NoBlinderIndex

\* C25: the calls one from_details or to_details makes on the session come
\* in the order of enrichment: those for the inputs before those for the
\* outputs, and within each those for a lower index before those for a
\* higher one.
C25_SequentialEnrichment ==
    presult.op \in {"from_details", "to_details"} =>
        \A k, l \in DOMAIN presult.calls :
            k < l =>
                /\ presult.calls[k].of = "output" => presult.calls[l].of = "output"
                /\ presult.calls[k].of = presult.calls[l].of
                       => presult.calls[k].index <= presult.calls[l].index

\* A to_details that asked for the previous transactions of two inputs and
\* then for the script data of two outputs.
C25_Witness ==
    /\ presult.op = "to_details"
    /\ presult.error = NoError
    /\ \E k, l, m, n \in DOMAIN presult.calls :
           /\ k < l /\ l < m /\ m < n
           /\ presult.calls[k] = Call("get_raw_transaction_details", "input", 0)
           /\ presult.calls[l] = Call("get_raw_transaction_details", "input", 1)
           /\ presult.calls[m] = Call("get_scriptpubkey_data", "output", 0)
           /\ presult.calls[n] = Call("get_scriptpubkey_data", "output", 1)

\* ------------------------------------------------ the signer's mutex

\* What the threads' steps leave alone.
NoOther ==
    UNCHANGED <<hw_device, credentials, ctor_pc, ctor_error, m_is_liquid, m_credentials,
                m_device, m_master_key, inflight, last, returned, foreign, raced, peer, pvars>>

\* The paths the threads ask for, and the one cache_bip32_xpub is given.
LockPaths == {<<>>, AccountPath \o <<0, 5>>}

\* The methods that read the members under the mutex and return.
Readers ==
    {"get_cached_bip32_xpubs", "get_credentials", "has_master_blinding_key",
     "get_master_blinding_key", "get_blinding_key_from_script"}

\* Where a method goes first: to its unique_lock, or out again.
\* has_bip32_xpub returns at once with a master key (lines 317-319),
\* get_credentials when not liquid (246), set_master_blinding_key for an
\* empty string or a key of the wrong size (404-407).
Entry(op, blinding_key_hex) ==
    CASE op = "has_bip32_xpub" -> IF m_master_key # NoKey THEN "idle" ELSE "lock"
      [] op = "get_credentials" -> IF m_is_liquid THEN "lock" ELSE "idle"
      [] op = "set_master_blinding_key" ->
            IF blinding_key_hex = ""
               \/ ~set_master_blinding_key(m_master_blinding_key, blinding_key_hex).ok
            THEN "idle" ELSE "lock"
      [] op = "cache_bip32_xpub" -> "cache_lock"
      [] OTHER -> "lock"

\* A thread calls a method of the signer.
Begin(t, op, path, xpub, blinding_key_hex) ==
    /\ threads[t].pc = "idle"
    /\ calls < MaxCalls
    /\ calls' = calls + 1
    /\ threads' = [threads EXCEPT ![t] =
                      IF Entry(op, blinding_key_hex) = "idle" THEN Idle
                      ELSE [Idle EXCEPT !.pc = Entry(op, blinding_key_hex), !.op = op,
                                        !.path = path, !.cache_path = path, !.xpub = xpub,
                                        !.blinding_key_hex = blinding_key_hex]]
    /\ UNCHANGED <<m_mutex, m_cached_bip32_xpubs, m_master_blinding_key>>
    /\ NoOther

\* std::unique_lock<std::mutex> locker{ m_mutex }: the thread waits until
\* no thread holds the mutex.  The mutex is not recursive: a thread that
\* holds it waits for itself.
Acquire(t) ==
    /\ threads[t].pc \in {"lock", "cache_lock"}
    /\ m_mutex = NoThread
    /\ m_mutex' = {t}
    /\ threads' = [threads EXCEPT ![t].pc = IF @ = "lock" THEN "locked" ELSE "cache_locked"]
    /\ UNCHANGED <<calls, m_cached_bip32_xpubs, m_master_blinding_key>>
    /\ NoOther

\* A method returns xpub to its caller, or throws.
Returning(xpub) == [Idle EXCEPT !.out = "ok", !.xpub = xpub]

Throwing == [Idle EXCEPT !.out = "throw"]

\* The thread is outside the method again; what it returned is the caller's.
Finished(c) == IF c.pc = "idle" THEN Idle ELSE c

HeldPastScope(holder, t) == holder

\* The scope of the unique_lock ends, by return, by throw or at the closing
\* brace of line 292: the thread releases the mutex.
Released(holder, t) == holder \ {t}

\* Lines 273-291: what the search leaves in the locals of get_bip32_xpub.
SearchedUnderLock(c, cache) ==
    LET s == search(cache, c.path, <<>>)
    IN  IF s.hit /\ s.child_path = <<>> THEN Returning(cache[c.path])
        ELSE [c EXCEPT !.pc = "derive", !.parent_path = s.parent_path,
                       !.child_path = s.child_path,
                       !.parent_key = IF s.hit
                                      THEN bip32_public_key_from_bip32_xpub(cache[s.parent_path])
                                      ELSE NoKey]

\* The body a method runs under its unique_lock: the search of
\* get_bip32_xpub (272-292) and of has_bip32_xpub (321-333), the reads of
\* the cache (359-360) and of the master blinding key (249-253, 391-392,
\* 397-399, 418-420), and the write of the key (411-412).
Locked(t) ==
    /\ threads[t].pc = "locked"
    /\ m_mutex' = Released(m_mutex, t)
    /\ threads' = [threads EXCEPT ![t] =
                      IF @.op = "get_bip32_xpub"
                      THEN Finished(SearchedUnderLock(@, m_cached_bip32_xpubs))
                      ELSE Idle]
    /\ m_master_blinding_key' =
           IF threads[t].op = "set_master_blinding_key"
           THEN set_master_blinding_key(m_master_blinding_key, threads[t].blinding_key_hex).key
           ELSE m_master_blinding_key
    /\ UNCHANGED <<calls, m_cached_bip32_xpubs>>
    /\ NoOther

CachingExtKeySkipped(c, path, hdkey, next) ==
    IF hdkey = NoKey THEN Throwing
    ELSE IF next = "idle" THEN Returning(Serialize(hdkey))
    ELSE [c EXCEPT !.pc = next]

\* cache_ext_key (338-346) for the thread with locals c: it asserts the key
\* and calls cache_bip32_xpub; the thread goes on at next when that returns.
CachingExtKey(c, path, hdkey, next) ==
    IF hdkey = NoKey THEN Throwing
    ELSE [c EXCEPT !.pc = "cache_lock", !.cache_path = path, !.xpub = Serialize(hdkey),
                   !.next = next]

\* Lines 293-312 of get_bip32_xpub, outside the lock.
Derived(c) ==
    IF c.path = <<>> THEN CachingExtKey(c, <<>>, m_master_key, "idle")
    ELSE IF NeedsParent(c)
    THEN IF m_master_key = NoKey THEN Throwing
         ELSE CachingExtKey([c EXCEPT !.parent_key = derive(m_master_key, c.parent_path, TRUE)],
                            c.parent_path, derive(m_master_key, c.parent_path, TRUE), "derive")
    ELSE IF RootKey(c.parent_key, m_master_key) = NoKey THEN Throwing
    ELSE IF c.child_path = <<>> THEN Returning(Serialize(RootKey(c.parent_key, m_master_key)))
    ELSE IF ~CanDerive(RootKey(c.parent_key, m_master_key), c.child_path) THEN Throwing
    ELSE CachingExtKey(c, ChildCachePath(c),
                       derive(RootKey(c.parent_key, m_master_key), c.child_path, TRUE), "idle")

Derive(t) ==
    /\ threads[t].pc = "derive"
    /\ threads' = [threads EXCEPT ![t] = Finished(Derived(@))]
    /\ UNCHANGED <<m_mutex, calls, m_cached_bip32_xpubs, m_master_blinding_key>>
    /\ NoOther

\* Lines 352-354 and 345: a failed assertion leaves the method by throwing;
\* otherwise cache_ext_key returns the xpub, to the caller of get_bip32_xpub
\* or into its next statement.
Emplaced(c, r) ==
    IF ~r.ok THEN Throwing
    ELSE IF c.next = "idle" THEN Returning(c.xpub)
    ELSE [c EXCEPT !.pc = c.next]

\* Lines 350-354: cache_bip32_xpub under its unique_lock.
CacheLocked(t) ==
    /\ threads[t].pc = "cache_locked"
    /\ m_mutex' = Released(m_mutex, t)
    /\ LET r == cache_bip32_xpub(m_cached_bip32_xpubs, threads[t].cache_path, threads[t].xpub)
       IN  /\ m_cached_bip32_xpubs' = r.cache
           /\ threads' = [threads EXCEPT ![t] = Finished(Emplaced(@, r))]
    /\ UNCHANGED <<calls, m_master_blinding_key>>
    /\ NoOther

\* A software signer from a hex seed and a hardware signer, on Bitcoin and
\* on Liquid.
InitLock ==
    /\ \E in \in SignerInputs, liquid \in BOOLEAN :
          LET me == signer(liquid, in.hw_device, in.credentials)
          IN  /\ me.error = NoError
              /\ hw_device = in.hw_device
              /\ credentials = in.credentials
              /\ m_is_liquid = me.m_is_liquid
              /\ m_credentials = me.m_credentials
              /\ m_device = me.m_device
              /\ m_master_key = me.m_master_key
              /\ m_master_blinding_key = me.m_master_blinding_key
    /\ ctor_pc = "done"
    /\ ctor_error = NoError
    /\ InitCalls
    /\ InitOther

NextLock ==
    \/ \E t \in 1..NumThreads, path \in LockPaths, op \in {"get_bip32_xpub", "has_bip32_xpub"} :
          Begin(t, op, path, NoXpub, "")
    \/ \E t \in 1..NumThreads, xpub \in XpubsFor(AccountPath) :
          Begin(t, "cache_bip32_xpub", AccountPath, xpub, "")
    \/ \E t \in 1..NumThreads, op \in Readers : Begin(t, op, <<>>, NoXpub, "")
    \/ \E t \in 1..NumThreads, blinding_key_hex \in BlindingKeyHexes :
          Begin(t, "set_master_blinding_key", <<>>, NoXpub, blinding_key_hex)
    \/ \E t \in 1..NumThreads : Acquire(t)
    \/ \E t \in 1..NumThreads : Locked(t)
    \/ \E t \in 1..NumThreads : Derive(t)
    \/ \E t \in 1..NumThreads : CacheLocked(t)

SpecLock == InitLock /\ [][NextLock]_vars

\* The positions at which a method touches m_cached_bip32_xpubs or
\* m_master_blinding_key, and those at which it waits for the mutex.
Touching(t) == threads[t].pc \in {"locked", "cache_locked"}

Waiting(t) == threads[t].pc \in {"lock", "cache_lock"}

\* C26: a signer method reads or writes the xpub cache and the master
\* blinding key only while its thread holds the signer's mutex; no thread
\* waits for the mutex while holding it; and while any call is under way
\* some thread can take a step, so no interleaving of calls deadlocks.
C26_LockingDiscipline ==
    /\ \A t \in 1..NumThreads : Touching(t) => m_mutex = {t}
    /\ \A t \in 1..NumThreads : Waiting(t) => t \notin m_mutex
    /\ (\E t \in 1..NumThreads : threads[t].pc # "idle")
          => \E t \in 1..NumThreads :
                 \/ threads[t].pc \in {"locked", "cache_locked", "derive"}
                 \/ Waiting(t) /\ m_mutex = NoThread

\* One get_bip32_xpub holds the mutex inside cache_bip32_xpub, after its
\* search released it, while another waits to cache a key of its own.
C26_Witness ==
    /\ threads[1].op = "get_bip32_xpub" /\ threads[1].pc = "cache_locked"
    /\ threads[2].op = "get_bip32_xpub" /\ threads[2].pc = "cache_lock"
    /\ m_mutex = {1}

\* A call that runs from position c to its end with no other thread in
\* between: what it returns or throws, and the cache it leaves.
RECURSIVE Ran(_, _)
Ran(c, cache) ==
    IF c.pc = "idle" THEN [out |-> c.out, xpub |-> c.xpub, cache |-> cache]
    ELSE IF c.pc = "derive" THEN Ran(Derived(c), cache)
    ELSE Ran(Emplaced(c, cache_bip32_xpub(cache, c.cache_path, c.xpub)),
             cache_bip32_xpub(cache, c.cache_path, c.xpub).cache)

\* get_bip32_xpub(path) called on a signer whose cache is this one.
get_bip32_xpub(cache, path) ==
    Ran(SearchedUnderLock([Idle EXCEPT !.op = "get_bip32_xpub", !.path = path], cache), cache)

C28_ErrorOfUnskippedInput ==
    (presult.op = "to_details" /\ presult.error = NoError /\ Has(presult.value, "error"))
        => \E i \in 1..Len(InputsOf(presult.value)) :
               /\ Erroring(InputsOf(presult.value)[i])
               /\ ~Skipped(InputsOf(presult.value)[i])
               /\ InputsOf(presult.value)[i]["error"] = presult.value["error"]

\* C29: a to_details that fails leaves the Psbt as it was before the call;
\* no UTXO fetched for an earlier input stays attached.
C29_FailureLeavesPsbt ==
    [][(ToDetailsStep /\ presult'.error # NoError) => psbt' = psbt]_vars

LiquidMultisigResult == MultisigResult /\ psbt.m_is_liquid

\* The outputs of the asset that go to others: neither the wallet's nor the fee.
SpentExternally(is_liquid, session, outputs, asset) ==
    { i \in 1..Len(outputs) : /\ ~Owned(session, outputs[i])
                              /\ ~IsFee(outputs[i])
                              /\ j_assetref(is_liquid, outputs[i]) = asset }

\* The outputs of the asset that pay to the wallet.
WalletOutputs(is_liquid, session, outputs, asset) ==
    { i \in 1..Len(outputs) : /\ Owned(session, outputs[i])
                              /\ j_assetref(is_liquid, outputs[i]) = asset }

\* C30: in to_details on liquid multisig the fee output takes no part in
\* change detection: it gets no is_change, and it does not count as the
\* asset being spent externally, so a wallet output that is the only one of
\* a funded asset beside the fee has is_change false.
C30_FeeNotChange ==
    LiquidMultisigResult =>
        /\ \A i \in 1..Len(OutputsOf(presult.value)) :
               IsFee(OutputsOf(presult.value)[i])
                   => ~Has(OutputsOf(presult.value)[i], "is_change")
        /\ \A asset \in FundedAssets(TRUE, presult.value) :
               \A i \in WalletOutputs(TRUE, presult.args.session,
                                      OutputsOf(presult.value), asset) :
                   (/\ WalletOutputs(TRUE, presult.args.session,
                                     OutputsOf(presult.value), asset) = {i}
                    /\ SpentExternally(TRUE, presult.args.session,
                                       OutputsOf(presult.value), asset) = {})
                       => /\ ~IsChange(OutputsOf(presult.value)[i])
                          /\ Enriched(OutputsOf(presult.value)[i])
                                => Has(OutputsOf(presult.value)[i], "is_change")

\* A PSET the wallet funded, paying the wallet and the fee and nothing else:
\* the wallet output is not change.
C30_Witness ==
    /\ LiquidMultisigResult
    /\ Len(OutputsOf(presult.value)) = 2
    /\ Enriched(OutputsOf(presult.value)[1])
    /\ j_assetref(TRUE, OutputsOf(presult.value)[1]) \in FundedAssets(TRUE, presult.value)
    /\ Has(OutputsOf(presult.value)[1], "is_change")
    /\ ~OutputsOf(presult.value)[1]["is_change"]
    /\ IsFee(OutputsOf(presult.value)[2])
    /\ j_assetref(TRUE, OutputsOf(presult.value)[2]) = j_assetref(TRUE, OutputsOf(presult.value)[1])

====
